---- MODULE Spec2Model ----
(***************************************************************************)
(* Model of the data service (services/data-service/src/data_service.py):  *)
(* the ingestion pipeline that turns upstream frames into ticks and OHLC   *)
(* candles, the Redis candle cache (sorted sets and `:latest` keys), the   *)
(* registry of downstream WebSocket clients with their tick and OHLC       *)
(* filters, and the filtered broadcast.                                    *)
(*                                                                         *)
(* Abstractions.  A candle's open/high/low/close/volume and its extended   *)
(* fields are one field `close`.  Start-timestamps are minute indices      *)
(* 1..MaxTs (0 is a missing or unparseable `ts`).  A JSON string is the    *)
(* record of the values json.dumps writes plus `layout`, the key set of    *)
(* the dict that was dumped: two strings are equal iff the records are.    *)
(* A handler runs as one step; the Redis server is reachable or not for    *)
(* the whole of a handler.                                                 *)
(***************************************************************************)
EXTENDS Integers, Sequences, FiniteSets, TLC

\* ---------------------------------------------------------------- bounds
MaxTs == 3
MinutesPerDay == 2
MaxCandles == 4
MaxClients == 2
MaxTasks == 2
MaxApiCandles == 2
MaxPending == 2
\* status handlers entered and not left, at most
MaxCallbacks == 2

Instruments == {"NIFTY", "BANK"}
Prices == {10, 11}
Streamers == {1, 2}
\* Python's None where a JSON candle / an OHLCCandle / a price is expected
NoJson == [layout |-> "None", instrument_key |-> "", interval |-> "", close |-> 0,
           timestamp |-> 0, candle_status |-> ""]
NoCandle == [instrument_key |-> "", interval |-> "", close |-> 0, timestamp |-> 0,
             candle_status |-> ""]
NoRequest == [action |-> "none", client_id |-> 0]
\* an optional list of a downstream request: absent (None), or its items
Absent == [present |-> FALSE, items |-> {}]
Given(items) == [present |-> TRUE, items |-> items]

Timestamps == 1..MaxTs
\* access tokens of the broker accounts, old and new
Tokens == {1, 2, 3}
\* the modes change_instrument_mode accepts
ValidModes == {"full", "ltpc", "option_greeks", "full_d30"}
\* None in self.market_streamers / self.portfolio_streamers
NoStreamer == [token |-> 0, running |-> FALSE, modes |-> <<>>]
\* intervals of a feed's OHLC items as Upstox names them; "I30" is one the
\* pipeline does not ingest
UpstoxIntervals == {"I1", "1d", "I30"}
Intervals == {"1min", "5min", "15min", "30min", "1day"}
\* what a client may name in a tick filter / in an OHLC filter
FilterKeys == Instruments \cup {"*"}
FilterIntervals == Intervals \cup {"*"}

VARIABLES
    last_candle_state,    \* self.last_candle_state[inst]["1min"]
    zsets,                \* Redis: ohlc:{date}:{inst}:{interval}, a sorted set
    latest,               \* Redis: ohlc:{date}:{inst}:{interval}:latest
    market_data_cache,    \* self.market_data_cache
    redis_market_data,    \* Redis: market_data:{inst}
    current_trading_date, \* self.current_trading_date (0 is None)
    redis_trading_date,   \* Redis: master_data:trading_date (0 is absent)
    redis_up,             \* the Redis server answers
    subscribers,          \* self.subscribers: client_id -> (websocket, set object)
    set_objects,          \* the heap of Python set objects holding tick filters
    ohlc_subscribers,     \* self.ohlc_subscribers: client_id -> inst -> intervals
    next_client,          \* number of client ids (uuid4) issued so far
    sessions,             \* clients whose websocket_endpoint loop is running
    history_tasks,        \* _send_historical_ohlc coroutines in flight
    next_task,            \* number of _send_historical_ohlc coroutines created
    clock,                \* wall clock (time.time()), as a minute index
    redis_portfolio_data, \* Redis: portfolio_data (0 is absent)
    sockets,              \* downstream: client_id -> "open" | "stalled" | "closed"
    pending,              \* send_text coroutines of a client the loop has not finished
    loop_running,         \* self.loop is not closed
    access_tokens,        \* self.access_tokens
    market_streamers,     \* self.market_streamers: connectors, NoStreamer for None
    portfolio_streamers,  \* self.portfolio_streamers
    subscribed_instruments, \* self.subscribed_instruments
    instrument_modes,     \* self.instrument_modes
    market_streamer_status,    \* self.market_streamer_status
    portfolio_streamer_status, \* self.portfolio_streamer_status
    market_connections,   \* upstream: where the connection of each market connector is
    callbacks,            \* status handlers an SDK thread has entered and not left
    streamer_ts,          \* upstream: last 1-minute start-timestamp sent per connector
    ncandles,             \* candles received from upstream and the History API so far
    last_op,              \* the handler that ran last, with its input
    pending_request,      \* the last request of the first connection's session
                          \* when it was a connect, subscribe or subscribe_ohlc,
                          \* with the filter it found
    outbox                \* frames the last handler sent: <<[to, msg]>>

vars == <<last_candle_state, zsets, latest, market_data_cache, redis_market_data,
          current_trading_date, redis_trading_date, redis_up, subscribers,
          set_objects, ohlc_subscribers, next_client, sessions, history_tasks,
          next_task, clock, streamer_ts, ncandles, last_op, pending_request, outbox,
          redis_portfolio_data, sockets, pending, loop_running, access_tokens,
          market_streamers, portfolio_streamers, subscribed_instruments,
          instrument_modes, market_streamer_status, portfolio_streamer_status,
          market_connections, callbacks>>

ingestVars == <<last_candle_state, zsets, latest, market_data_cache,
                redis_market_data, current_trading_date, redis_trading_date,
                redis_portfolio_data>>
registryVars == <<subscribers, set_objects, ohlc_subscribers, next_client,
                  sessions>>
taskVars == <<history_tasks, next_task>>
upstreamVars == <<streamer_ts, ncandles>>
socketVars == <<sockets, pending, loop_running>>
connectorVars == <<access_tokens, market_streamers, portfolio_streamers,
                   subscribed_instruments, instrument_modes,
                   market_streamer_status, portfolio_streamer_status,
                   market_connections, callbacks>>

\* ------------------------------------------------------------- trading date
\* datetime.fromtimestamp(ts/1000, tz=IST).strftime("%Y-%m-%d"), as a day number
_calculate_trading_date(timestamp) == ((timestamp - 1) \div MinutesPerDay) + 1

TradingDates == {_calculate_trading_date(t) : t \in Timestamps}
SeriesKeys == TradingDates \X Instruments \X Intervals

\* The memory and Redis part of the service a handler reads and writes, as one
\* record, so that a handler is the composition of the functions it calls:
\* the caches, the registry (reg), the frames written so far (out), the
\* unfinished send coroutines (pend) and the clients a send to which failed.
Store == [lcs |-> last_candle_state, zsets |-> zsets, latest |-> latest,
          mdc |-> market_data_cache, rmd |-> redis_market_data,
          ctd |-> current_trading_date, rtd |-> redis_trading_date,
          rpd |-> redis_portfolio_data,
          reg |-> [subscribers |-> subscribers, set_objects |-> set_objects,
                   ohlc |-> ohlc_subscribers],
          pend |-> pending, failed |-> {}, out |-> <<>>]

\* _get_trading_date without the comparison at line 969: every call stores
\* the date of its timestamp
_get_trading_date_any(st, timestamp) ==
    LET calculated_date == _calculate_trading_date(timestamp) IN
    [st EXCEPT !.ctd = calculated_date,
               !.rtd = IF redis_up THEN calculated_date ELSE @]

\* _get_trading_date: returns the date of the timestamp; moves the in-memory
\* date forward (or keeps it) and writes it through to Redis
_get_trading_date(st, timestamp) ==
    LET calculated_date == _calculate_trading_date(timestamp) IN
    IF st.ctd = 0 \/ calculated_date >= st.ctd
    THEN [st EXCEPT !.ctd = calculated_date,
                    !.rtd = IF redis_up THEN calculated_date ELSE @]
    ELSE st

\* ------------------------------------------------------------- sorted sets
\* A sorted set is a set of [member, score] with no member twice.
\* ZADD key score member: a member already present has its score replaced.
ZAdd(z, member, score) ==
    {e \in z : e.member # member} \cup {[member |-> member, score |-> score]}

\* the JSON _cache_ohlc_candle dumps: candle_data built from the OHLCCandle
CandleJson(candle) ==
    [layout |-> "candle_data", instrument_key |-> candle.instrument_key,
     interval |-> candle.interval, close |-> candle.close,
     timestamp |-> candle.timestamp, candle_status |-> candle.candle_status]

\* variant of _cache_ohlc_candle that leaves :latest alone
_cache_ohlc_candle_series_only(st, candle) ==
    LET st1 == _get_trading_date(st, candle.timestamp)
        key == <<_calculate_trading_date(candle.timestamp),
                 candle.instrument_key, candle.interval>>
    IN  IF ~redis_up THEN st1
        ELSE [st1 EXCEPT !.zsets[key] = ZAdd(@, CandleJson(candle), candle.timestamp)]

\* _cache_ohlc_candle: ZADD at score = timestamp, then SETEX of :latest.
\* A Redis error is caught and logged; the date kept in memory moved before it.
_cache_ohlc_candle(st, candle) ==
    LET st1 == _get_trading_date(st, candle.timestamp)
        key == <<_calculate_trading_date(candle.timestamp),
                 candle.instrument_key, candle.interval>>
        candle_json == CandleJson(candle)
    IN  IF ~redis_up THEN st1
        ELSE [st1 EXCEPT !.zsets[key] = ZAdd(@, candle_json, candle.timestamp),
                         !.latest[key] = candle_json]

\* variant of ApiCandleJson without the candle_status key
ApiCandleJson_as_returned(instrument_key, interval, candle_data) ==
    [layout |-> "api", instrument_key |-> instrument_key, interval |-> interval,
     close |-> candle_data.close, timestamp |-> candle_data.timestamp,
     candle_status |-> ""]

\* the JSON _cache_ohlc_from_api dumps: the dict built by _fetch_ohlc_from_api
\* with instrument_key, interval and candle_status added
ApiCandleJson(instrument_key, interval, candle_data) ==
    [layout |-> "api", instrument_key |-> instrument_key, interval |-> interval,
     close |-> candle_data.close, timestamp |-> candle_data.timestamp,
     candle_status |-> "completed"]

\* _cache_ohlc_from_api: ZADD, then :latest only when none is stored or the
\* stored one is older
_cache_ohlc_from_api(st, instrument_key, interval, candle_data) ==
    LET timestamp == candle_data.timestamp IN
    IF timestamp = 0 THEN st
    ELSE
    LET st1 == _get_trading_date(st, timestamp)
        key == <<_calculate_trading_date(timestamp), instrument_key, interval>>
        candle_json == ApiCandleJson(instrument_key, interval, candle_data)
    IN  IF ~redis_up THEN st1
        ELSE [st1 EXCEPT
                !.zsets[key] = ZAdd(@, candle_json, timestamp),
                !.latest[key] = IF @ = NoJson \/ timestamp > @.timestamp
                                THEN candle_json ELSE @]
\* ------------------------------------------------------------ Python dicts
\* del d[k]
DictDel(d, k) == [x \in DOMAIN d \ {k} |-> d[x]]
\* d[k] = v
DictSet(d, k, v) == [x \in DOMAIN d \cup {k} |-> IF x = k THEN v ELSE d[x]]

\* --------------------------------------------------------------- registry
\* The registry a handler reads and writes, as one record.
Registry == [subscribers |-> subscribers, set_objects |-> set_objects,
             ohlc |-> ohlc_subscribers]

\* the tick filter of a registered client: the set object its entry refers to
Subscriptions(reg, client_id) == reg.set_objects[reg.subscribers[client_id].subscriptions]

\* set objects no entry refers to are garbage
Collect(reg) ==
    [reg EXCEPT !.set_objects =
        [r \in {reg.subscribers[c].subscriptions : c \in DOMAIN reg.subscribers}
            |-> reg.set_objects[r]]]

\* variant of add_subscriber: one default set object shared by all clients (a
\* mutable default argument)
add_subscriber_shared_default(reg, client_id) ==
    [reg EXCEPT
        !.subscribers = DictSet(@, client_id,
                                [websocket |-> client_id, subscriptions |-> 0]),
        !.set_objects = IF 0 \in DOMAIN @ THEN @ ELSE DictSet(@, 0, {"*"})]

\* add_subscriber(websocket) with client_id = uuid4() passed in as the fresh
\* id: `subscriptions = {"*"}` builds a new set object on every call (the
\* object is named by the client id it is built for)
add_subscriber(reg, client_id) ==
    [reg EXCEPT
        !.subscribers = DictSet(@, client_id,
                                [websocket |-> client_id, subscriptions |-> client_id]),
        !.set_objects = DictSet(@, client_id, {"*"})]

\* a variant of remove_subscriber that leaves the OHLC entry
remove_subscriber_tick_only(reg, client_id) ==
    Collect([reg EXCEPT
        !.subscribers = IF client_id \in DOMAIN @ THEN DictDel(@, client_id) ELSE @])

\* remove_subscriber: both dict entries go
remove_subscriber(reg, client_id) ==
    Collect([reg EXCEPT
        !.subscribers = IF client_id \in DOMAIN @ THEN DictDel(@, client_id) ELSE @,
        !.ohlc = IF client_id \in DOMAIN @ THEN DictDel(@, client_id) ELSE @])

\* variants of update_subscriptions: subscribe that replaces the filter by the
\* listed instruments; unsubscribe that empties the filter
update_subscriptions_replace(reg, client_id, action, instruments) ==
    IF client_id \notin DOMAIN reg.subscribers THEN <<reg, FALSE>>
    ELSE LET ref == reg.subscribers[client_id].subscriptions IN
         IF action = "subscribe"
         THEN <<[reg EXCEPT !.set_objects[ref] = instruments], TRUE>>
         ELSE IF action = "unsubscribe"
         THEN <<[reg EXCEPT !.set_objects[ref] = @ \ instruments], TRUE>>
         ELSE <<reg, FALSE>>

update_subscriptions_clear(reg, client_id, action, instruments) ==
    IF client_id \notin DOMAIN reg.subscribers THEN <<reg, FALSE>>
    ELSE LET ref == reg.subscribers[client_id].subscriptions IN
         IF action = "subscribe"
         THEN <<[reg EXCEPT !.set_objects[ref] = @ \cup instruments], TRUE>>
         ELSE IF action = "unsubscribe"
         THEN <<[reg EXCEPT !.set_objects[ref] = {}], TRUE>>
         ELSE <<reg, FALSE>>

\* update_subscriptions: set.update / set.difference_update on the client's
\* set object, in place; <<registry, returned value>>
update_subscriptions(reg, client_id, action, instruments) ==
    IF client_id \notin DOMAIN reg.subscribers THEN <<reg, FALSE>>
    ELSE LET ref == reg.subscribers[client_id].subscriptions IN
         IF action = "subscribe"
         THEN <<[reg EXCEPT !.set_objects[ref] = @ \cup instruments], TRUE>>
         ELSE IF action = "unsubscribe"
         THEN <<[reg EXCEPT !.set_objects[ref] = @ \ instruments], TRUE>>
         ELSE <<reg, FALSE>>

\* get_client_subscriptions: a copy of the set, set() for an unknown client
get_client_subscriptions(reg, client_id) ==
    IF client_id \in DOMAIN reg.subscribers THEN Subscriptions(reg, client_id) ELSE {}
\* subscribe_ohlc, the filter part: every listed instrument gets the intervals
\* added; <<registry, success>>
subscribe_ohlc(reg, client_id, instruments, intervals) ==
    IF client_id \notin DOMAIN reg.subscribers THEN <<reg, FALSE>>
    ELSE
    LET ivs == IF intervals = {} THEN {"*"} ELSE intervals
        old == IF client_id \in DOMAIN reg.ohlc THEN reg.ohlc[client_id] ELSE <<>>
        new == [i \in DOMAIN old \cup instruments |->
                  IF i \in instruments
                  THEN (IF i \in DOMAIN old THEN old[i] ELSE {}) \cup ivs
                  ELSE old[i]]
    IN  <<[reg EXCEPT !.ohlc = DictSet(@, client_id, new)], TRUE>>

\* variant of unsubscribe_ohlc that drops every listed instrument
unsubscribe_ohlc_drop_instrument(reg, client_id, instruments, intervals) ==
    IF client_id \notin DOMAIN reg.ohlc THEN <<reg, FALSE>>
    ELSE IF ~instruments.present
    THEN <<[reg EXCEPT !.ohlc = DictDel(@, client_id)], TRUE>>
    ELSE
    LET old == reg.ohlc[client_id]
        keep == DOMAIN old \ instruments.items
    IN  <<[reg EXCEPT !.ohlc = IF keep = {} THEN DictDel(@, client_id)
                               ELSE DictSet(@, client_id, [i \in keep |-> old[i]])],
          TRUE>>

\* variant of unsubscribe_ohlc that keeps an instrument whose intervals are all
\* removed, mapped to the empty set
unsubscribe_ohlc_keep_empty(reg, client_id, instruments, intervals) ==
    IF client_id \notin DOMAIN reg.ohlc THEN <<reg, FALSE>>
    ELSE IF ~instruments.present
    THEN <<[reg EXCEPT !.ohlc = DictDel(@, client_id)], TRUE>>
    ELSE
    LET old == reg.ohlc[client_id]
        left(i) == IF i \notin instruments.items THEN old[i]
                   ELSE IF ~intervals.present THEN {}
                   ELSE old[i] \ intervals.items
        keep == {i \in DOMAIN old : i \notin instruments.items \/ intervals.present}
        new == [i \in keep |-> left(i)]
    IN  <<[reg EXCEPT !.ohlc = IF keep = {} THEN DictDel(@, client_id)
                               ELSE DictSet(@, client_id, new)], TRUE>>

\* unsubscribe_ohlc: instruments absent clears the client's entry; intervals
\* absent drops the listed instruments; otherwise the listed intervals are
\* removed and an instrument left with none is dropped; an empty client entry
\* is dropped
unsubscribe_ohlc(reg, client_id, instruments, intervals) ==
    IF client_id \notin DOMAIN reg.ohlc THEN <<reg, FALSE>>
    ELSE IF ~instruments.present
    THEN <<[reg EXCEPT !.ohlc = DictDel(@, client_id)], TRUE>>
    ELSE
    LET old == reg.ohlc[client_id]
        left(i) == IF i \notin instruments.items THEN old[i]
                   ELSE IF ~intervals.present THEN {}
                   ELSE old[i] \ intervals.items
        keep == {i \in DOMAIN old : i \notin instruments.items \/ left(i) # {}}
        new == [i \in keep |-> left(i)]
    IN  <<[reg EXCEPT !.ohlc = IF keep = {} THEN DictDel(@, client_id)
                               ELSE DictSet(@, client_id, new)], TRUE>>

\* get_client_ohlc_subscriptions
get_client_ohlc_subscriptions(reg, client_id) ==
    IF client_id \in DOMAIN reg.ohlc THEN reg.ohlc[client_id] ELSE <<>>

\* ---------------------------------------------------------------- fan-out
\* variant of the tick recipients: a portfolio event goes to every client
\* whose filter is not empty
TickRecipients_portfolio_any(reg, message) ==
    IF message.type = "market_data"
    THEN {c \in DOMAIN reg.subscribers :
            "*" \in Subscriptions(reg, c)
                \/ message.instrument_key \in Subscriptions(reg, c)}
    ELSE {c \in DOMAIN reg.subscribers : Subscriptions(reg, c) # {}}

\* variant of the recipients: only the "*" test
TickRecipients_wildcard_only(reg, message) ==
    {c \in DOMAIN reg.subscribers : "*" \in Subscriptions(reg, c)}

\* _broadcast_to_subscribers: the clients the message is sent to
TickRecipients(reg, message) ==
    LET instrument_key == IF message.type = "market_data" THEN message.instrument_key
                          ELSE "*"
    IN  {c \in DOMAIN reg.subscribers :
            "*" \in Subscriptions(reg, c) \/ instrument_key \in Subscriptions(reg, c)}

\* variant of the candle recipients: the tick filter has to admit the
\* instrument as well
OhlcRecipients_tick_filtered(reg, candle) ==
    {c \in DOMAIN reg.ohlc :
        /\ c \in DOMAIN reg.subscribers
        /\ ("*" \in Subscriptions(reg, c)
            \/ candle.instrument_key \in Subscriptions(reg, c))
        /\ candle.instrument_key \in DOMAIN reg.ohlc[c]
        /\ ("*" \in reg.ohlc[c][candle.instrument_key]
            \/ candle.interval \in reg.ohlc[c][candle.instrument_key])}

\* _broadcast_ohlc_update: the clients the candle is sent to
OhlcRecipients(reg, candle) ==
    {c \in DOMAIN reg.ohlc :
        /\ c \in DOMAIN reg.subscribers
        /\ candle.instrument_key \in DOMAIN reg.ohlc[c]
        /\ ("*" \in reg.ohlc[c][candle.instrument_key]
            \/ candle.interval \in reg.ohlc[c][candle.instrument_key])}

\* websocket.send_text(msg) run on the loop for every socket in `to`: an open
\* socket is written (one entry of out per message, with the sockets written;
\* no entry when none was); on a socket whose peer has stopped reading the
\* coroutine stays unfinished; on a socket the peer has closed it raises
Send(st, to, msg) ==
    LET written == {c \in to : sockets[c] = "open"}
        st1 == [st EXCEPT
                  !.pend = [c \in DOMAIN @ |->
                              IF c \in to /\ sockets[c] = "stalled"
                              THEN @[c] + 1 ELSE @[c]],
                  !.failed = @ \cup {c \in to : sockets[c] = "closed"}]
    IN  IF written = {} THEN st1
        ELSE [st1 EXCEPT !.out = Append(@, [to |-> written, msg |-> msg])]

\* _remove_ohlc_subscriber: the OHLC entry goes, the tick entry stays
_remove_ohlc_subscriber(reg, client_id) ==
    [reg EXCEPT !.ohlc = IF client_id \in DOMAIN @ THEN DictDel(@, client_id) ELSE @]

\* `for client_id in disconnected_clients: self.remove_subscriber(client_id)`
RECURSIVE RemoveSubscribers(_, _)
RemoveSubscribers(reg, disconnected_clients) ==
    IF disconnected_clients = {} THEN reg
    ELSE LET client_id == CHOOSE c \in disconnected_clients : TRUE
         IN  RemoveSubscribers(remove_subscriber(reg, client_id),
                               disconnected_clients \ {client_id})

\* `for client_id in disconnected_clients: self._remove_ohlc_subscriber(client_id)`
RECURSIVE RemoveOhlcSubscribers(_, _)
RemoveOhlcSubscribers(reg, disconnected_clients) ==
    IF disconnected_clients = {} THEN reg
    ELSE LET client_id == CHOOSE c \in disconnected_clients : TRUE
         IN  RemoveOhlcSubscribers(_remove_ohlc_subscriber(reg, client_id),
                                   disconnected_clients \ {client_id})

\* _broadcast_to_subscribers, called on a connector's thread: for every client
\* that should receive, asyncio.run_coroutine_threadsafe(websocket.send_text(..),
\* self.loop) hands the send to the loop and returns a future nobody reads,
\* so what the send does on the loop (Send) never reaches the `except`; the
\* call itself raises only when the loop is closed, and then for every
\* recipient, each of which is removed after the loop over the clients.
_broadcast_to_subscribers(st, message) ==
    LET to == TickRecipients(st.reg, message) IN
    IF loop_running THEN Send(st, to, message)
    ELSE [st EXCEPT !.reg = RemoveSubscribers(@, to), !.failed = @ \cup to]

\* _broadcast_ohlc_update: the same, with _remove_ohlc_subscriber
_broadcast_ohlc_update(st, candle) ==
    LET to == OhlcRecipients(st.reg, candle) IN
    IF loop_running THEN Send(st, to, [type |-> "ohlc_data", data |-> candle])
    ELSE [st EXCEPT !.reg = RemoveOhlcSubscribers(@, to), !.failed = @ \cup to]

\* _on_portfolio_message: SETEX of portfolio_data, then the broadcast; a
\* failing SETEX is logged and ends the handler
_on_portfolio_message(st, message) ==
    IF ~redis_up THEN st
    ELSE _broadcast_to_subscribers([st EXCEPT !.rpd = message],
                                   [type |-> "portfolio_data", data |-> message])
\* ---------------------------------------------------------------- pipeline
\* interval_map.get(upstox_interval): "" when the interval is not ingested
IntervalMap(upstox_interval) ==
    IF upstox_interval = "I1" THEN "1min"
    ELSE IF upstox_interval = "1d" THEN "1day" ELSE ""

\* variant of ProcessOhlcItem that caches the superseded 1-minute candle as it
\* is, without marking it completed
ProcessOhlcItem_keeps_active(st, instrument_key, ohlc_item) ==
    LET interval == IntervalMap(ohlc_item.interval)
        current_timestamp == ohlc_item.ts
    IN
    IF interval = "" \/ current_timestamp = 0 THEN st
    ELSE IF interval = "1min"
    THEN
        LET last_state == st.lcs[instrument_key]
            last_timestamp == last_state.last_timestamp
            st1 == IF /\ last_timestamp > 0
                      /\ current_timestamp # last_timestamp
                      /\ last_state.last_candle # NoCandle
                   THEN _cache_ohlc_candle(st, last_state.last_candle)
                   ELSE st
            candle == [instrument_key |-> instrument_key, interval |-> interval,
                       close |-> ohlc_item.close, timestamp |-> current_timestamp,
                       candle_status |-> "active"]
            st2 == [st1 EXCEPT !.lcs[instrument_key] =
                        [last_timestamp |-> current_timestamp, last_candle |-> candle]]
        IN  _broadcast_ohlc_update(st2, candle)
    ELSE
        LET candle == [instrument_key |-> instrument_key, interval |-> interval,
                       close |-> ohlc_item.close, timestamp |-> current_timestamp,
                       candle_status |-> "completed"]
        IN  _broadcast_ohlc_update(_cache_ohlc_candle(st, candle), candle)

\* one item of marketOHLC.ohlc in _process_ohlc_data's loop
ProcessOhlcItem(st, instrument_key, ohlc_item) ==
    LET interval == IntervalMap(ohlc_item.interval)
        current_timestamp == ohlc_item.ts
    IN
    IF interval = "" \/ current_timestamp = 0 THEN st
    ELSE IF interval = "1min"
    THEN
        LET last_state == st.lcs[instrument_key]
            last_timestamp == last_state.last_timestamp
            \* new candle detected: the previous one is completed and cached
            st1 == IF /\ last_timestamp > 0
                      /\ current_timestamp # last_timestamp
                      /\ last_state.last_candle # NoCandle
                   THEN _cache_ohlc_candle(st,
                            [last_state.last_candle EXCEPT !.candle_status = "completed"])
                   ELSE st
            candle == [instrument_key |-> instrument_key, interval |-> interval,
                       close |-> ohlc_item.close, timestamp |-> current_timestamp,
                       candle_status |-> "active"]
            st2 == [st1 EXCEPT !.lcs[instrument_key] =
                        [last_timestamp |-> current_timestamp, last_candle |-> candle]]
        IN  _broadcast_ohlc_update(st2, candle)
    ELSE
        LET candle == [instrument_key |-> instrument_key, interval |-> interval,
                       close |-> ohlc_item.close, timestamp |-> current_timestamp,
                       candle_status |-> "completed"]
        IN  _broadcast_ohlc_update(_cache_ohlc_candle(st, candle), candle)

\* _process_ohlc_data: the items of the list in order
RECURSIVE _process_ohlc_data(_, _, _)
_process_ohlc_data(st, instrument_key, ohlc_list) ==
    IF ohlc_list = <<>> THEN st
    ELSE _process_ohlc_data(ProcessOhlcItem(st, instrument_key, Head(ohlc_list)),
                            instrument_key, Tail(ohlc_list))

\* _on_market_message over message['feeds'], a sequence of
\* [instrument_key, ltpc (a price, 0 when the feed has no ltpc), ohlc (a list)].
\* With an ltpc the tick is kept in memory, written to Redis and broadcast;
\* a failing SETEX raises into the handler's outer except, which ends it.
RECURSIVE _on_market_message(_, _)
_on_market_message(st, feeds) ==
    IF feeds = <<>> THEN st
    ELSE
    LET feed == Head(feeds)
        instrument_key == feed.instrument_key
        market_data == [type |-> "market_data", instrument_key |-> instrument_key,
                        ltp |-> feed.ltpc]
        st1 == [st EXCEPT !.mdc[instrument_key] = feed.ltpc]
    IN
    IF feed.ltpc # 0 /\ ~redis_up THEN st1
    ELSE
    LET st2 == IF feed.ltpc # 0
               THEN _broadcast_to_subscribers(
                        [st1 EXCEPT !.rmd[instrument_key] = feed.ltpc], market_data)
               ELSE st
    IN  _on_market_message(_process_ohlc_data(st2, instrument_key, feed.ohlc),
                           Tail(feeds))
\* ---------------------------------------------------------------- upstream
\* The connector side of the service, as one record. A connector is the SDK
\* object with the token it was built with, whether it is connected (running)
\* and, for a market connector, the mode of every instrument it is subscribed
\* to at the broker.
Upstream == [tokens |-> access_tokens, market |-> market_streamers,
             portfolio |-> portfolio_streamers,
             subscribed |-> subscribed_instruments, modes |-> instrument_modes,
             status |-> market_streamer_status,
             portfolio_status |-> portfolio_streamer_status,
             connections |-> market_connections, callbacks |-> callbacks]

\* a status record as the stream starts append it: not connected, last_error
\* None or the text of the exception, token_index the index of the api client
NewStatus(idx, last_error) ==
    [connected |-> FALSE, last_error |-> last_error, token_index |-> idx,
     reconnecting |-> FALSE, reconnect_attempts |-> 0]

\* the status records one start appends for the first n api clients: the one
\* of the `try` when the body got as far as the append, and the one of the
\* `except` when the body raised
RECURSIVE StatusAppended(_, _)
StatusAppended(n, outcome) ==
    IF n = 0 THEN <<>>
    ELSE StatusAppended(n - 1, outcome) \o
            (IF outcome[n] = "ok" THEN <<NewStatus(n, "none")>>
             ELSE IF outcome[n] = "connect"
             THEN <<NewStatus(n, "none"), NewStatus(n, "raised")>>
             ELSE <<NewStatus(n, "raised")>>)

\* the connection of a connector that was just started, and of None
Connecting == [phase |-> "connecting", attempts |-> 0]
NoConnection == [phase |-> "none", attempts |-> 0]

\* active_streamers: the indices of market_streamers that are not None
ActiveStreamers(up) == {k \in DOMAIN up.market : up.market[k] # NoStreamer}

\* a mode map with `mode` for the listed instruments
WithMode(m, instruments, mode) ==
    [i \in DOMAIN m \cup instruments |-> IF i \in instruments THEN mode ELSE m[i]]

\* a mode map without the listed instruments
Without(m, instruments) == [i \in DOMAIN m \ instruments |-> m[i]]

\* the connectors at the indices in `ok` subscribe the instruments in `mode`
OnAccepting(up, ok, instruments, mode) ==
    [k \in DOMAIN up.market |->
        IF k \in ok
        THEN [up.market[k] EXCEPT !.modes = WithMode(@, instruments, mode)]
        ELSE up.market[k]]

\* the connectors at the indices in `ok` unsubscribe the instruments
OnDropping(up, ok, instruments) ==
    [k \in DOMAIN up.market |->
        IF k \in ok
        THEN [up.market[k] EXCEPT !.modes = Without(@, instruments)]
        ELSE up.market[k]]

\* stop(): disconnect() on every connector that is not None (the SDK's
\* disconnect ends the connection and its auto-reconnect)
stop(up) ==
    LET stopped(list) ==
            [k \in DOMAIN list |->
                IF list[k] = NoStreamer THEN NoStreamer
                ELSE [list[k] EXCEPT !.running = FALSE]]
    IN  [up EXCEPT !.market = stopped(@), !.portfolio = stopped(@)]

\* start_market_data_stream(instruments): one connector per api client in mode
\* "full". outcome[idx] says how far the body of the `try` gets for the idx-th
\* client: "construct" raises before the mode loop, "connect" raises in
\* streamer.connect(), "ok" appends the connector; a raise appends None.
start_market_data_stream(up, instruments, outcome) ==
    LET built == [idx \in DOMAIN up.tokens |->
                    IF outcome[idx] = "ok"
                    THEN [token |-> up.tokens[idx], running |-> TRUE,
                          modes |-> [i \in instruments |-> "full"]]
                    ELSE NoStreamer]
        reached == \E idx \in DOMAIN up.tokens : outcome[idx] # "construct"
    IN  [up EXCEPT
            !.subscribed = @ \cup instruments,
            !.modes = IF reached
                      THEN [i \in DOMAIN @ \cup instruments |->
                              IF i \in instruments THEN "full" ELSE @[i]]
                      ELSE @,
            !.market = @ \o built,
            !.status = @ \o StatusAppended(Len(up.tokens), outcome),
            !.connections = @ \o
                [idx \in DOMAIN up.tokens |->
                    IF outcome[idx] = "ok" THEN Connecting ELSE NoConnection]]

\* start_portfolio_stream(): one portfolio connector per api client
start_portfolio_stream(up, outcome) ==
    [up EXCEPT
        !.portfolio = @ \o
            [idx \in DOMAIN up.tokens |->
                IF outcome[idx] = "ok"
                THEN [token |-> up.tokens[idx], running |-> TRUE, modes |-> <<>>]
                ELSE NoStreamer],
        !.portfolio_status = @ \o StatusAppended(Len(up.tokens), outcome)]

\* reload_tokens(access_tokens): <<upstream, raised>>. An empty list raises
\* before anything is stopped; otherwise the connectors are stopped, the tokens
\* and both connector lists are replaced, and the streams are started again
\* with get_subscribed_instruments().
reload_tokens(up, tokens, market_outcome, portfolio_outcome) ==
    IF tokens = <<>> THEN <<up, TRUE>>
    ELSE
    LET up1 == [stop(up) EXCEPT !.tokens = tokens, !.market = <<>>,
                                !.portfolio = <<>>, !.status = <<>>,
                                !.portfolio_status = <<>>, !.connections = <<>>,
                                !.callbacks = {[c EXCEPT !.stale = TRUE] : c \in @}]
        instruments == up1.subscribed
        up2 == IF instruments # {}
               THEN start_market_data_stream(up1, instruments, market_outcome)
               ELSE up1
    IN  <<start_portfolio_stream(up2, portfolio_outcome), FALSE>>

\* a variant that succeeds only when every active connector subscribed
add_instruments_all_accept(up, instruments, accepts) ==
    IF ActiveStreamers(up) = {} \/ instruments = {} THEN <<up, FALSE>>
    ELSE
    LET new_instruments == instruments \ up.subscribed
        ok == ActiveStreamers(up) \cap accepts
    IN  IF new_instruments = {} THEN <<up, TRUE>>
        ELSE IF ok # ActiveStreamers(up) THEN <<up, FALSE>>
        ELSE <<[up EXCEPT
                  !.subscribed = @ \cup new_instruments,
                  !.modes = WithMode(@, new_instruments, "full"),
                  !.market = OnAccepting(up, ok, new_instruments, "full")],
               TRUE>>

\* add_instruments: <<upstream, success>>; accepts is the set of connector
\* indices whose subscribe() does not raise
add_instruments(up, instruments, accepts) ==
    IF ActiveStreamers(up) = {} \/ instruments = {} THEN <<up, FALSE>>
    ELSE
    LET new_instruments == instruments \ up.subscribed
        ok == ActiveStreamers(up) \cap accepts
    IN  IF new_instruments = {} THEN <<up, TRUE>>
        ELSE IF ok = {} THEN <<up, FALSE>>
        ELSE <<[up EXCEPT
                  !.subscribed = @ \cup new_instruments,
                  !.modes = WithMode(@, new_instruments, "full"),
                  !.market = OnAccepting(up, ok, new_instruments, "full")],
               TRUE>>

\* a variant that reports a failure when none of the listed instruments is
\* subscribed
remove_instruments_strict(up, instruments, accepts) ==
    IF ActiveStreamers(up) = {} \/ instruments = {} THEN <<up, FALSE>>
    ELSE
    LET instruments_to_remove == instruments \cap up.subscribed
        ok == ActiveStreamers(up) \cap accepts
    IN  IF instruments_to_remove = {} \/ ok = {} THEN <<up, FALSE>>
        ELSE <<[up EXCEPT
                  !.subscribed = @ \ instruments_to_remove,
                  !.modes = Without(@, instruments_to_remove),
                  !.market = OnDropping(up, ok, instruments_to_remove)],
               TRUE>>

\* remove_instruments: <<upstream, success>>
remove_instruments(up, instruments, accepts) ==
    IF ActiveStreamers(up) = {} \/ instruments = {} THEN <<up, FALSE>>
    ELSE
    LET instruments_to_remove == instruments \cap up.subscribed
        ok == ActiveStreamers(up) \cap accepts
    IN  IF instruments_to_remove = {} THEN <<up, TRUE>>
        ELSE IF ok = {} THEN <<up, FALSE>>
        ELSE <<[up EXCEPT
                  !.subscribed = @ \ instruments_to_remove,
                  !.modes = Without(@, instruments_to_remove),
                  !.market = OnDropping(up, ok, instruments_to_remove)],
               TRUE>>

\* a variant that succeeds only when every active connector took the change
change_instrument_mode_all_accept(up, instruments, mode, accepts) ==
    IF \/ ActiveStreamers(up) = {}
       \/ instruments = {}
       \/ mode \notin ValidModes
       \/ ~(instruments \subseteq up.subscribed)
    THEN <<up, FALSE>>
    ELSE
    LET ok == ActiveStreamers(up) \cap accepts
    IN  IF ok # ActiveStreamers(up) THEN <<up, FALSE>>
        ELSE <<[up EXCEPT
                  !.modes = WithMode(@, instruments, mode),
                  !.market = OnAccepting(up, ok, instruments, mode)], TRUE>>

\* change_instrument_mode: <<upstream, success>>; the tracked modes are set
\* when at least one active connector took the change
change_instrument_mode(up, instruments, mode, accepts) ==
    IF \/ ActiveStreamers(up) = {}
       \/ instruments = {}
       \/ mode \notin ValidModes
       \/ ~(instruments \subseteq up.subscribed)
    THEN <<up, FALSE>>
    ELSE
    LET ok == ActiveStreamers(up) \cap accepts
    IN  IF ok = {} THEN <<up, FALSE>>
        ELSE <<[up EXCEPT
                  !.modes = WithMode(@, instruments, mode),
                  !.market = OnAccepting(up, ok, instruments, mode)], TRUE>>

\* ------------------------------------------------------------------- state
\* What every start has: empty caches and registry, no request handled yet.
Fresh ==
    /\ last_candle_state =
           [i \in Instruments |-> [last_timestamp |-> 0, last_candle |-> NoCandle]]
    /\ zsets = [k \in SeriesKeys |-> {}]
    /\ latest = [k \in SeriesKeys |-> NoJson]
    /\ market_data_cache = [i \in Instruments |-> 0]
    /\ redis_market_data = [i \in Instruments |-> 0]
    /\ redis_up = TRUE
    /\ subscribers = <<>>
    /\ set_objects = <<>>
    /\ ohlc_subscribers = <<>>
    /\ next_client = 0
    /\ sessions = {}
    /\ history_tasks = {}
    /\ next_task = 0
    /\ clock = 1
    /\ streamer_ts = [s \in Streamers |-> [i \in Instruments |-> 0]]
    /\ ncandles = 0
    /\ last_op = [op |-> "init"]
    /\ pending_request = NoRequest
    /\ outbox = <<>>
    /\ redis_portfolio_data = 0
    /\ sockets = <<>>
    /\ pending = <<>>
    /\ loop_running = TRUE
    /\ callbacks = {}

\* The process before its startup has run: no DataService yet, an empty Redis.
InitLifespan ==
    /\ Fresh
    /\ current_trading_date = 0
    /\ redis_trading_date = 0
    /\ access_tokens = <<>>
    /\ market_streamers = <<>>
    /\ portfolio_streamers = <<>>
    /\ subscribed_instruments = {}
    /\ instrument_modes = <<>>
    /\ market_streamer_status = <<>>
    /\ portfolio_streamer_status = <<>>
    /\ market_connections = <<>>

\* The service after a startup in which everything went well: the trading date
\* initialised, two tokens, the configured instruments subscribed in mode
\* "full" on a connector per token, no downstream client.
Init ==
    /\ Fresh
    /\ current_trading_date = _calculate_trading_date(1)
    /\ redis_trading_date = _calculate_trading_date(1)
    /\ access_tokens = <<1, 2>>
    /\ market_streamers =
           [idx \in 1..2 |-> [token |-> idx, running |-> TRUE,
                              modes |-> [i \in Instruments |-> "full"]]]
    /\ portfolio_streamers =
           [idx \in 1..2 |-> [token |-> idx, running |-> TRUE, modes |-> <<>>]]
    /\ subscribed_instruments = Instruments
    /\ instrument_modes = [i \in Instruments |-> "full"]
    /\ market_streamer_status = [idx \in 1..2 |-> NewStatus(idx, "none")]
    /\ portfolio_streamer_status = [idx \in 1..2 |-> NewStatus(idx, "none")]
    /\ market_connections = [idx \in 1..2 |-> Connecting]

\* a handler's effect on memory and Redis, and the frames it sent
SetStore(st) ==
    /\ last_candle_state' = st.lcs
    /\ zsets' = st.zsets
    /\ latest' = st.latest
    /\ market_data_cache' = st.mdc
    /\ redis_market_data' = st.rmd
    /\ current_trading_date' = st.ctd
    /\ redis_trading_date' = st.rtd
    /\ redis_portfolio_data' = st.rpd
    /\ outbox' = st.out

\* the same with the sends the handler left unfinished, at most MaxPending of
\* them per client
SetSent(st) ==
    /\ \A c \in DOMAIN st.pend : st.pend[c] <= MaxPending
    /\ SetStore(st)
    /\ pending' = st.pend

SetRegistry(reg) ==
    /\ subscribers' = reg.subscribers
    /\ set_objects' = reg.set_objects
    /\ ohlc_subscribers' = reg.ohlc

\* ---------------------------------------------------------------- upstream
\* OHLC items a feed may carry: every 1-minute and 1-day candle, one item of an
\* interval that is not ingested and one whose `ts` is missing
OhlcItems ==
    [interval : {"I1", "1d"}, ts : Timestamps, close : Prices]
        \cup {[interval |-> "I30", ts |-> 1, close |-> 10],
               [interval |-> "I1", ts |-> 0, close |-> 10]}

\* the 1-minute start-timestamps of a feed's items
MinuteTs(feed) ==
    {feed.ohlc[k].ts : k \in {j \in DOMAIN feed.ohlc : feed.ohlc[j].interval = "I1"}}
        \ {0}

\* the OHLC items of a message
RECURSIVE CandleCount(_)
CandleCount(feeds) ==
    IF feeds = <<>> THEN 0 ELSE Len(Head(feeds).ohlc) + CandleCount(Tail(feeds))

Max(S) == CHOOSE x \in S : \A y \in S : y <= x

\* The broker sends a connector the candles of an instrument in time order:
\* a connector never goes back to an earlier minute.
BrokerOrder(s, feeds) ==
    \A k \in DOMAIN feeds :
        \A t \in MinuteTs(feeds[k]) : t >= streamer_ts[s][feeds[k].instrument_key]

\* pending_request after a handler that sent `out`: a kept subscribe notes
\* that events were broadcast after it
Noted(out) ==
    IF pending_request.action = "subscribe" /\ out # <<>>
    THEN [pending_request EXCEPT !.broadcasts = TRUE]
    ELSE pending_request

\* the s-th connector of the list exists and is connected
Delivers(streamers, s) ==
    s \in DOMAIN streamers /\ streamers[s] # NoStreamer /\ streamers[s].running

\* Connector s delivers a message: _on_market_message(message, s).
OnMarketMessage(s, feeds) ==
    /\ Delivers(market_streamers, s)
    /\ \A k \in DOMAIN feeds :
           feeds[k].instrument_key \in DOMAIN market_streamers[s].modes
    /\ ncandles + CandleCount(feeds) <= MaxCandles
    /\ BrokerOrder(s, feeds)
    /\ LET st == _on_market_message(Store, feeds)
       IN  /\ SetSent(st)
           /\ SetRegistry(st.reg)
           /\ pending_request' = Noted(st.out)
           /\ last_op' = [op |-> "market_message", feeds |-> feeds,
                          failed |-> st.failed,
                          token |-> market_streamers[s].token]
    /\ streamer_ts' = [streamer_ts EXCEPT ![s] =
            [i \in Instruments |->
                Max({@[i]} \cup UNION {MinuteTs(feeds[k]) :
                        k \in {j \in DOMAIN feeds : feeds[j].instrument_key = i}})]]
    /\ ncandles' = ncandles + CandleCount(feeds)
    /\ UNCHANGED <<connectorVars, next_client, sessions, redis_up, taskVars, clock, sockets,
                   loop_running>>

\* A portfolio connector delivers a message: _on_portfolio_message(message, s).
OnPortfolioMessage(s, message) ==
    /\ Delivers(portfolio_streamers, s)
    /\ LET st == _on_portfolio_message(Store, message)
       IN  /\ SetSent(st)
           /\ SetRegistry(st.reg)
           /\ pending_request' = Noted(st.out)
           /\ last_op' = [op |-> "portfolio_message", message |-> message,
                          failed |-> st.failed]
    /\ UNCHANGED <<connectorVars, next_client, sessions, redis_up, taskVars, clock, upstreamVars,
                   sockets, loop_running>>

\* ------------------------------------------------------------- environment
RedisDown ==
    /\ redis_up
    /\ redis_up' = FALSE
    /\ last_op' = [op |-> "env"]
    /\ outbox' = <<>>
    /\ UNCHANGED <<connectorVars, ingestVars, registryVars, pending_request, taskVars, clock,
                   upstreamVars, socketVars>>

RedisBack ==
    /\ ~redis_up
    /\ redis_up' = TRUE
    /\ last_op' = [op |-> "env"]
    /\ outbox' = <<>>
    /\ UNCHANGED <<connectorVars, ingestVars, registryVars, pending_request, taskVars, clock,
                   upstreamVars, socketVars>>

ClockTick ==
    /\ clock < MaxTs
    /\ clock' = clock + 1
    /\ last_op' = [op |-> "env"]
    /\ outbox' = <<>>
    /\ UNCHANGED <<connectorVars, ingestVars, registryVars, pending_request, redis_up, taskVars,
                   upstreamVars, socketVars>>

\* A downstream client stops reading its socket: the frames written to it from
\* now on stay with the server.
ClientStalls(client_id) ==
    /\ client_id \in sessions
    /\ sockets[client_id] = "open"
    /\ sockets' = [sockets EXCEPT ![client_id] = "stalled"]
    /\ last_op' = [op |-> "env"]
    /\ outbox' = <<>>
    /\ UNCHANGED <<connectorVars, ingestVars, registryVars, pending_request, redis_up, taskVars,
                   clock, upstreamVars, pending, loop_running>>

\* The peer of a downstream socket goes away, and the unfinished sends to it
\* raise; the session has not yet returned from receive_text.
PeerCloses(client_id) ==
    /\ client_id \in sessions
    /\ sockets[client_id] # "closed"
    /\ sockets' = [sockets EXCEPT ![client_id] = "closed"]
    /\ pending' = [pending EXCEPT ![client_id] = 0]
    /\ last_op' = [op |-> "env"]
    /\ outbox' = <<>>
    /\ UNCHANGED <<connectorVars, ingestVars, registryVars, pending_request, redis_up, taskVars,
                   clock, upstreamVars, loop_running>>

\* The process is made to exit and the event loop is closed without the
\* shutdown having stopped the connectors: a connector's thread may still
\* deliver the messages it has read.
LoopCloses ==
    /\ loop_running
    /\ loop_running' = FALSE
    /\ last_op' = [op |-> "env"]
    /\ outbox' = <<>>
    /\ UNCHANGED <<connectorVars, ingestVars, registryVars, pending_request, redis_up, taskVars,
                   clock, upstreamVars, sockets, pending>>

\* ----------------------------------------------------- upstream requests
SetUpstream(up) ==
    /\ access_tokens' = up.tokens
    /\ market_streamers' = up.market
    /\ portfolio_streamers' = up.portfolio
    /\ subscribed_instruments' = up.subscribed
    /\ instrument_modes' = up.modes
    /\ market_streamer_status' = up.status
    /\ portfolio_streamer_status' = up.portfolio_status
    /\ market_connections' = up.connections
    /\ callbacks' = up.callbacks

\* the status of an instruments endpoint: 400 for an empty field, 500 when the
\* service reports a failure
Status(instruments, success) ==
    IF instruments = {} THEN 400 ELSE IF success THEN 200 ELSE 500

\* the request is the one handled just before it, with the same arguments and
\* the same connectors accepting
Repeats(op, args) ==
    /\ last_op.op = op
    /\ \A f \in DOMAIN args : last_op[f] = args[f]

\* _get_or_init_trading_date: the date stored in Redis when there is one,
\* else today's, which is stored
_get_or_init_trading_date(st) ==
    IF redis_up /\ st.rtd # 0 THEN [st EXCEPT !.ctd = st.rtd]
    ELSE LET calculated_date == _calculate_trading_date(clock)
         IN  [st EXCEPT !.ctd = calculated_date,
                        !.rtd = IF redis_up THEN calculated_date ELSE @]

\* POST /api/instruments/subscribe
AddInstruments(instruments, accepts) ==
    /\ loop_running
    /\ LET r == add_instruments(Upstream, instruments, accepts)
       IN  /\ SetUpstream(IF instruments = {} THEN Upstream ELSE r[1])
           /\ last_op' = [op |-> "add_instruments", instruments |-> instruments,
                          accepts |-> accepts,
                          sent |-> instruments \ subscribed_instruments,
                          repeat |-> Repeats("add_instruments",
                              [instruments |-> instruments, accepts |-> accepts]),
                          status |-> Status(instruments, r[2])]
    /\ outbox' = <<>>
    /\ UNCHANGED <<ingestVars, registryVars, pending_request, redis_up,
                   taskVars, clock, upstreamVars, socketVars>>

\* POST /api/instruments/unsubscribe
RemoveInstruments(instruments, accepts) ==
    /\ loop_running
    /\ LET r == remove_instruments(Upstream, instruments, accepts)
       IN  /\ SetUpstream(IF instruments = {} THEN Upstream ELSE r[1])
           /\ last_op' = [op |-> "remove_instruments",
                          instruments |-> instruments, accepts |-> accepts,
                          sent |-> instruments \cap subscribed_instruments,
                          repeat |-> Repeats("remove_instruments",
                              [instruments |-> instruments, accepts |-> accepts]),
                          status |-> Status(instruments, r[2])]
    /\ outbox' = <<>>
    /\ UNCHANGED <<ingestVars, registryVars, pending_request, redis_up,
                   taskVars, clock, upstreamVars, socketVars>>

\* POST /api/instruments/change-mode; mode "" is the empty field
ChangeInstrumentMode(instruments, mode, accepts) ==
    /\ loop_running
    /\ LET r == change_instrument_mode(Upstream, instruments, mode, accepts)
           rejected == instruments = {} \/ mode = ""
       IN  /\ SetUpstream(IF rejected THEN Upstream ELSE r[1])
           /\ last_op' = [op |-> "change_mode", instruments |-> instruments,
                          mode |-> mode, accepts |-> accepts,
                          repeat |-> Repeats("change_mode",
                              [instruments |-> instruments, mode |-> mode,
                               accepts |-> accepts]),
                          status |-> IF rejected THEN 400
                                     ELSE IF r[2] THEN 200 ELSE 500]
    /\ outbox' = <<>>
    /\ UNCHANGED <<ingestVars, registryVars, pending_request, redis_up,
                   taskVars, clock, upstreamVars, socketVars>>

Range(seq) == {seq[k] : k \in DOMAIN seq}

\* the tokens admin_reload_tokens collects: those in Redis; else the token
\* service's; then UPSTOX_ACCESS_TOKEN, a list of two or more always and a
\* single token only when there is none yet; then the secondary variable's
\* unless it is already there. A source that has nothing is <<>> (0 for the
\* secondary variable).
GatherTokens(redis_tokens, service_tokens, env_token, env_token_secondary) ==
    LET m2 == IF redis_tokens = <<>> THEN service_tokens ELSE redis_tokens
        m3 == IF Len(env_token) >= 2 THEN m2 \o env_token
              ELSE IF env_token # <<>> /\ m2 = <<>> THEN env_token
              ELSE m2
    IN  IF env_token_secondary # 0 /\ env_token_secondary \notin Range(m3)
        THEN Append(m3, env_token_secondary)
        ELSE m3

\* deduped_tokens: the first occurrence of each token, in order
RECURSIVE Dedupe(_)
Dedupe(tokens) ==
    IF tokens = <<>> THEN <<>>
    ELSE LET front == Dedupe(SubSeq(tokens, 1, Len(tokens) - 1))
             last == tokens[Len(tokens)]
         IN  IF last \in Range(front) THEN front ELSE Append(front, last)

\* a variant that restarts the downstream side with the connectors: the
\* registry is emptied
AdminReloadTokens_drop_clients(redis_tokens, service_tokens, env_token, env_token_secondary, market_outcome, portfolio_outcome) ==
    /\ loop_running
    /\ LET access_tokens_found == GatherTokens(redis_tokens, service_tokens,
                                               env_token, env_token_secondary)
           deduped_tokens == Dedupe(access_tokens_found)
           r == reload_tokens(Upstream, deduped_tokens, market_outcome,
                              portfolio_outcome)
           failed == access_tokens_found = <<>> \/ r[2]
       IN  /\ SetUpstream(IF access_tokens_found = <<>> THEN Upstream ELSE r[1])
           /\ SetRegistry(IF failed THEN Registry
                          ELSE [Registry EXCEPT !.subscribers = <<>>,
                                                !.ohlc = <<>>])
           /\ last_op' = [op |-> "reload_tokens",
                          tokens |-> access_tokens_found,
                          starts |-> [k \in DOMAIN deduped_tokens |->
                                        market_outcome[k]],
                          repeat |-> Repeats("reload_tokens",
                              [tokens |-> access_tokens_found,
                               starts |-> [k \in DOMAIN deduped_tokens |->
                                             market_outcome[k]]]),
                          status |-> IF failed THEN 500 ELSE 200]
    /\ outbox' = <<>>
    /\ UNCHANGED <<ingestVars, next_client, sessions, pending_request, redis_up,
                   taskVars, clock, upstreamVars, socketVars>>

\* a variant that stops the connectors before it looks for the tokens
AdminReloadTokens_stop_first(redis_tokens, service_tokens, env_token, env_token_secondary, market_outcome, portfolio_outcome) ==
    /\ loop_running
    /\ LET access_tokens_found == GatherTokens(redis_tokens, service_tokens,
                                               env_token, env_token_secondary)
           deduped_tokens == Dedupe(access_tokens_found)
           r == reload_tokens(stop(Upstream), deduped_tokens, market_outcome,
                              portfolio_outcome)
       IN  /\ SetUpstream(r[1])
           /\ last_op' = [op |-> "reload_tokens",
                          tokens |-> access_tokens_found,
                          starts |-> [k \in DOMAIN deduped_tokens |->
                                        market_outcome[k]],
                          repeat |-> Repeats("reload_tokens",
                              [tokens |-> access_tokens_found,
                               starts |-> [k \in DOMAIN deduped_tokens |->
                                             market_outcome[k]]]),
                          status |-> IF r[2] THEN 500 ELSE 200]
    /\ outbox' = <<>>
    /\ UNCHANGED <<ingestVars, registryVars, pending_request, redis_up,
                   taskVars, clock, upstreamVars, socketVars>>

\* POST /api/admin/reload-tokens: 500 when no source has a token, before
\* reload_tokens is called; otherwise reload_tokens with the deduplicated list.
\* market_outcome and portfolio_outcome say how the start of each new connector
\* goes.
AdminReloadTokens(redis_tokens, service_tokens, env_token, env_token_secondary, market_outcome, portfolio_outcome) ==
    /\ loop_running
    /\ LET access_tokens_found == GatherTokens(redis_tokens, service_tokens,
                                               env_token, env_token_secondary)
           deduped_tokens == Dedupe(access_tokens_found)
           r == reload_tokens(Upstream, deduped_tokens, market_outcome,
                              portfolio_outcome)
           failed == access_tokens_found = <<>> \/ r[2]
       IN  /\ SetUpstream(IF access_tokens_found = <<>> THEN Upstream ELSE r[1])
           /\ last_op' = [op |-> "reload_tokens",
                          tokens |-> access_tokens_found,
                          starts |-> [k \in DOMAIN deduped_tokens |->
                                        market_outcome[k]],
                          repeat |-> Repeats("reload_tokens",
                              [tokens |-> access_tokens_found,
                               starts |-> [k \in DOMAIN deduped_tokens |->
                                             market_outcome[k]]]),
                          status |-> IF failed THEN 500 ELSE 200]
    /\ outbox' = <<>>
    /\ UNCHANGED <<ingestVars, registryVars, pending_request, redis_up,
                   taskVars, clock, upstreamVars, socketVars>>

\* the service is past its startup: the endpoints are served
Started == access_tokens # <<>>

\* lifespan startup: the tokens are gathered (with none the process ends, and
\* nothing is served), DataService is built on them, the trading date is
\* initialised, the market stream is started for the configured instruments if
\* there are any, and the portfolio stream.
Lifespan(redis_tokens, service_tokens, env_token, env_token_secondary, instruments, market_outcome, portfolio_outcome) ==
    /\ ~Started
    /\ LET tokens == GatherTokens(redis_tokens, service_tokens, env_token,
                                  env_token_secondary)
           up0 == [Upstream EXCEPT !.tokens = tokens]
           up1 == IF instruments # {}
                  THEN start_market_data_stream(up0, instruments, market_outcome)
                  ELSE up0
       IN  /\ tokens # <<>>
           /\ SetUpstream(start_portfolio_stream(up1, portfolio_outcome))
           /\ last_op' = [op |-> "startup", instruments |-> instruments,
                          starts |-> [k \in DOMAIN tokens |-> market_outcome[k]]]
    /\ SetStore(_get_or_init_trading_date(Store))
    /\ UNCHANGED <<registryVars, pending_request, redis_up, taskVars, clock,
                   upstreamVars, socketVars>>

\* ------------------------------------------------------------ list order
\* The order in which a request's list names its items is not modelled: a list
\* is the set of its items, iterated in one fixed order.
RECURSIVE SetToSeq(_)
SetToSeq(S) ==
    IF S = {} THEN <<>>
    ELSE LET x == CHOOSE y \in S : TRUE IN <<x>> \o SetToSeq(S \ {x})

RECURSIVE Concat(_)
Concat(seqs) == IF seqs = <<>> THEN <<>> ELSE Head(seqs) \o Concat(Tail(seqs))

\* _send_historical_ohlc's loops: per instrument, per interval, "*" standing
\* for 1min, 5min, 15min, 30min
HistoryPairs(instruments, intervals) ==
    LET expand(iv) == IF iv = "*" THEN <<"1min", "5min", "15min", "30min">> ELSE <<iv>>
        ivs == SetToSeq(intervals)
        perInstrument(i) ==
            LET evs == Concat([k \in DOMAIN ivs |-> expand(ivs[k])])
            IN  [k \in DOMAIN evs |-> <<i, evs[k]>>]
        ins == SetToSeq(instruments)
    IN  Concat([k \in DOMAIN ins |-> perInstrument(ins[k])])

\* ------------------------------------------------------ websocket_endpoint
\* pending_request follows the session of the first connection: it holds that
\* client's last request when it was a subscribe or a subscribe_ohlc, with the
\* filter the client had before it, and nothing after any other request of it.
Track(client_id, request) ==
    IF client_id = 1 THEN request ELSE pending_request

\* what pending_request held when a request of client_id arrived
Prior(client_id) == IF client_id = 1 THEN pending_request ELSE NoRequest

\* the session of client_id can receive a request: its coroutine runs on the
\* loop and the client reads and writes its socket
Connected(client_id) ==
    /\ loop_running
    /\ client_id \in sessions
    /\ sockets[client_id] = "open"

\* A downstream client connects: accept, add_subscriber, the connection message.
WsConnect ==
    /\ loop_running
    /\ next_client < MaxClients
    /\ LET client_id == next_client + 1
           reg == add_subscriber(Registry, client_id)
       IN  /\ SetRegistry(reg)
           /\ next_client' = client_id
           /\ sessions' = sessions \cup {client_id}
           /\ sockets' = DictSet(sockets, client_id, "open")
           /\ pending' = DictSet(pending, client_id, 0)
           /\ pending_request' = Track(client_id,
                 [action |-> "connect", client_id |-> client_id])
           /\ last_op' = [op |-> "connect", client_id |-> client_id]
           /\ outbox' = <<[to |-> {client_id},
                           msg |-> [type |-> "connection", client_id |-> client_id,
                                    current_subscriptions |->
                                        get_client_subscriptions(reg, client_id)]]>>
    /\ UNCHANGED <<connectorVars, ingestVars, redis_up, taskVars, clock, upstreamVars, loop_running>>

\* A downstream client connects and is gone before the connection message is
\* written: add_subscriber has run, the send raises, and the handler ends
\* before its `try`, so its `finally` does not run.
WsConnectAborted ==
    /\ loop_running
    /\ next_client < MaxClients
    /\ LET client_id == next_client + 1
       IN  /\ SetRegistry(add_subscriber(Registry, client_id))
           /\ next_client' = client_id
           /\ sockets' = DictSet(sockets, client_id, "closed")
           /\ pending' = DictSet(pending, client_id, 0)
           /\ last_op' = [op |-> "connect_aborted", client_id |-> client_id]
    /\ outbox' = <<>>
    /\ UNCHANGED <<connectorVars, ingestVars, redis_up, taskVars, clock, upstreamVars, loop_running,
                   sessions, pending_request>>

\* {action: "subscribe" | "unsubscribe", instruments: [...]}; an empty or
\* absent list stands for ["*"]
WsUpdate(client_id, action, listed) ==
    /\ Connected(client_id)
    /\ LET instruments == IF listed = {} THEN {"*"} ELSE listed
           res == update_subscriptions(Registry, client_id, action, instruments)
           reg == res[1]
       IN  /\ SetRegistry(reg)
           /\ pending_request' = Track(client_id,
                 IF action = "subscribe"
                 THEN [action |-> action, client_id |-> client_id,
                       instruments |-> instruments,
                       before |-> get_client_subscriptions(Registry, client_id),
                       first |-> pending_request.action = "connect",
                       broadcasts |-> FALSE]
                 ELSE NoRequest)
           /\ last_op' = [op |-> action, client_id |-> client_id,
                          instruments |-> instruments, after |-> Prior(client_id)]
           /\ outbox' = <<[to |-> {client_id},
                           msg |-> [type |-> "subscription_update", action |-> action,
                                    instruments |-> instruments, success |-> res[2],
                                    current_subscriptions |->
                                        get_client_subscriptions(reg, client_id)]]>>
    /\ UNCHANGED <<connectorVars, ingestVars, redis_up, taskVars, clock, upstreamVars, next_client,
                   sessions, socketVars>>

\* the text frames the session loop has no branch for: text that json.loads
\* rejects, JSON that is not an object (message_data.get raises), and an object
\* whose action is none of the seven (or is missing)
BadFrames == {"not_json", "not_an_object", "unknown_action"}

ErrorText(frame) ==
    CASE frame = "not_json" -> "Invalid JSON format"
      [] frame = "not_an_object" -> "AttributeError"
      [] frame = "unknown_action" -> "Unknown action"

\* variant of WsBadFrame that ends the session after the error frame
WsBadFrame_ends_session(client_id, frame) ==
    /\ Connected(client_id)
    /\ frame \in BadFrames
    /\ LET reg1 == remove_subscriber(Registry, client_id)
           reg == [reg1 EXCEPT !.ohlc = IF client_id \in DOMAIN @
                                         THEN DictDel(@, client_id) ELSE @]
       IN  SetRegistry(reg)
    /\ sessions' = sessions \ {client_id}
    /\ sockets' = [sockets EXCEPT ![client_id] = "closed"]
    /\ pending' = [pending EXCEPT ![client_id] = 0]
    /\ pending_request' = Track(client_id, NoRequest)
    /\ last_op' = [op |-> "bad_frame", client_id |-> client_id, frame |-> frame]
    /\ outbox' = <<[to |-> {client_id},
                    msg |-> [type |-> "error", message |-> ErrorText(frame)]]>>
    /\ UNCHANGED <<connectorVars, ingestVars, redis_up, taskVars, clock, upstreamVars, next_client,
                   loop_running>>

\* A frame the session loop cannot serve: the JSONDecodeError, the exception
\* of message_data.get or the final else answers with an error frame, and the
\* loop goes on to the next receive_text.
WsBadFrame(client_id, frame) ==
    /\ Connected(client_id)
    /\ frame \in BadFrames
    /\ pending_request' = Track(client_id, NoRequest)
    /\ last_op' = [op |-> "bad_frame", client_id |-> client_id, frame |-> frame]
    /\ outbox' = <<[to |-> {client_id},
                    msg |-> [type |-> "error", message |-> ErrorText(frame)]]>>
    /\ UNCHANGED <<connectorVars, ingestVars, registryVars, redis_up, taskVars, clock,
                   upstreamVars, socketVars>>

\* {action: "get_subscriptions"}
WsGetSubscriptions(client_id) ==
    /\ Connected(client_id)
    /\ pending_request' = Track(client_id, NoRequest)
    /\ last_op' = [op |-> "get_subscriptions", client_id |-> client_id,
                   after |-> Prior(client_id)]
    /\ outbox' = <<[to |-> {client_id},
                    msg |-> [type |-> "subscriptions",
                             current_subscriptions |->
                                 get_client_subscriptions(Registry, client_id)]]>>
    /\ UNCHANGED <<connectorVars, ingestVars, redis_up, taskVars, clock, upstreamVars, subscribers,
                   set_objects, ohlc_subscribers, next_client, sessions, socketVars>>

\* The socket closes (WebSocketDisconnect or an error of the session): the
\* finally block removes the subscriber and its OHLC entry.
WsDisconnect(client_id) ==
    /\ loop_running
    /\ client_id \in sessions
    /\ LET reg1 == remove_subscriber(Registry, client_id)
           reg == [reg1 EXCEPT !.ohlc = IF client_id \in DOMAIN @
                                         THEN DictDel(@, client_id) ELSE @]
       IN  SetRegistry(reg)
    /\ sessions' = sessions \ {client_id}
    /\ sockets' = [sockets EXCEPT ![client_id] = "closed"]
    /\ pending' = [pending EXCEPT ![client_id] = 0]
    /\ pending_request' = Track(client_id, NoRequest)
    /\ last_op' = [op |-> "disconnect", client_id |-> client_id]
    /\ outbox' = <<>>
    /\ UNCHANGED <<connectorVars, ingestVars, redis_up, taskVars, clock, upstreamVars, next_client,
                   loop_running>>

\* json.dumps of a reply that carries get_client_ohlc_subscriptions(): the
\* values of that dict are sets, which json.dumps cannot encode, so with any
\* entry in it the TypeError is caught by the session loop, which sends an
\* error frame in place of the reply; the empty dict is encoded
OhlcReply(msg) ==
    IF DOMAIN msg.current_ohlc_subscriptions = {} THEN msg
    ELSE [type |-> "error", message |-> "TypeError"]

\* {action: "subscribe_ohlc", instruments, intervals, include_history}: an
\* absent intervals key stands for ["*"], an empty instruments list is an error;
\* with include_history a _send_historical_ohlc task is created for the
\* instruments and the intervals as subscribe_ohlc defaulted them.
WsSubscribeOhlc(client_id, instruments, listed, include_history) ==
    /\ Connected(client_id)
    /\ include_history => next_task < MaxTasks
    /\ LET intervals == IF listed.present THEN listed.items ELSE {"*"}
           res == subscribe_ohlc(Registry, client_id, instruments, intervals)
           reg == IF instruments = {} THEN Registry ELSE res[1]
           spawn == instruments # {} /\ res[2] /\ include_history
       IN  /\ SetRegistry(reg)
           /\ history_tasks' = IF spawn
                  THEN history_tasks \cup
                       {[id |-> next_task + 1, client_id |-> client_id,
                         todo |-> HistoryPairs(instruments,
                                     IF intervals = {} THEN {"*"} ELSE intervals),
                         pc |-> "start"]}
                  ELSE history_tasks
           /\ next_task' = IF spawn THEN next_task + 1 ELSE next_task
           /\ pending_request' = Track(client_id,
                 IF instruments = {} THEN NoRequest
                 ELSE [action |-> "subscribe_ohlc", client_id |-> client_id,
                       instruments |-> instruments, intervals |-> listed,
                       before |-> get_client_ohlc_subscriptions(Registry, client_id),
                       filter |-> get_client_ohlc_subscriptions(reg, client_id)])
           /\ last_op' = [op |-> "subscribe_ohlc", client_id |-> client_id,
                          task |-> IF spawn THEN next_task + 1 ELSE 0,
                          follows |-> IF last_op.op = "history_api" THEN last_op
                                      ELSE [op |-> "other"]]
           /\ outbox' = <<[to |-> {client_id}, msg |->
                 IF instruments = {}
                 THEN [type |-> "error", message |-> "instruments list is required"]
                 ELSE OhlcReply(
                      [type |-> "subscription_update", action |-> "subscribe_ohlc",
                       instruments |-> instruments, intervals |-> intervals,
                       success |-> res[2],
                       current_ohlc_subscriptions |->
                           get_client_ohlc_subscriptions(reg, client_id)])]>>
    /\ UNCHANGED <<connectorVars, ingestVars, redis_up, clock, upstreamVars, next_client, sessions,
                   socketVars>>

\* {action: "unsubscribe_ohlc", instruments?, intervals?}
WsUnsubscribeOhlc(client_id, instruments, intervals) ==
    /\ Connected(client_id)
    /\ LET res == unsubscribe_ohlc(Registry, client_id, instruments, intervals)
           reg == res[1]
       IN  /\ SetRegistry(reg)
           /\ pending_request' = Track(client_id, NoRequest)
           /\ last_op' = [op |-> "unsubscribe_ohlc", client_id |-> client_id,
                          instruments |-> instruments, intervals |-> intervals,
                          after |-> Prior(client_id)]
           /\ outbox' = <<[to |-> {client_id}, msg |-> OhlcReply(
                 [type |-> "subscription_update", action |-> "unsubscribe_ohlc",
                  instruments |-> instruments, intervals |-> intervals,
                  success |-> res[2],
                  current_ohlc_subscriptions |->
                      get_client_ohlc_subscriptions(reg, client_id)])]>>
    /\ UNCHANGED <<connectorVars, ingestVars, redis_up, taskVars, clock, upstreamVars, next_client,
                   sessions, socketVars>>

\* {action: "get_ohlc_subscriptions"}
WsGetOhlcSubscriptions(client_id) ==
    /\ Connected(client_id)
    /\ pending_request' = Track(client_id, NoRequest)
    /\ last_op' = [op |-> "get_ohlc_subscriptions", client_id |-> client_id]
    /\ outbox' = <<[to |-> {client_id},
                    msg |-> OhlcReply(
                            [type |-> "ohlc_subscriptions",
                             current_ohlc_subscriptions |->
                                 get_client_ohlc_subscriptions(Registry, client_id)])]>>
    /\ UNCHANGED <<connectorVars, ingestVars, redis_up, taskVars, clock, upstreamVars, subscribers,
                   set_objects, ohlc_subscribers, next_client, sessions, socketVars>>

\* --------------------------------------------------------------- hydrator
\* ZRANGE key 0 -1: by score, members of one score in the order of their JSON
\* strings ('{"instrument_key"...' before '{"timestamp"...', then by value)
JsonBefore(a, b) ==
    \/ a.layout = "candle_data" /\ b.layout = "api"
    \/ a.layout = b.layout /\ a.close < b.close

EntryBefore(a, b) ==
    a.score < b.score \/ (a.score = b.score /\ JsonBefore(a.member, b.member))

RECURSIVE ZRange(_)
ZRange(z) ==
    IF z = {} THEN <<>>
    ELSE LET first == CHOOSE e \in z : \A f \in z \ {e} : EntryBefore(e, f)
         IN  <<first.member>> \o ZRange(z \ {first})

\* variant of _get_cached_ohlc_candles that reads the series of the trading
\* date after today's
_get_cached_ohlc_candles_next_date(st, instrument_key, interval) ==
    LET st1 == _get_trading_date(st, clock)
        zset_key == <<_calculate_trading_date(clock) + 1, instrument_key, interval>>
    IN  <<st1, IF redis_up /\ zset_key \in DOMAIN st1.zsets
               THEN ZRange(st1.zsets[zset_key]) ELSE <<>>>>

\* _get_cached_ohlc_candles(instrument_key, interval): the series of today's
\* trading date, parsed and sorted by timestamp (a stable sort of a list that
\* is in score order already); [] when Redis fails. <<store, candles>>
_get_cached_ohlc_candles(st, instrument_key, interval) ==
    LET st1 == _get_trading_date(st, clock)
        zset_key == <<_calculate_trading_date(clock), instrument_key, interval>>
    IN  <<st1, IF redis_up THEN ZRange(st1.zsets[zset_key]) ELSE <<>>>>

\* the dicts _fetch_and_send_historical sends after caching them:
\* _cache_ohlc_from_api has added the three keys unless the timestamp is 0
RECURSIVE CacheApiCandles(_, _, _, _)
CacheApiCandles(st, instrument_key, interval, api_candles) ==
    IF api_candles = <<>> THEN st
    ELSE CacheApiCandles(
             _cache_ohlc_from_api(st, instrument_key, interval, Head(api_candles)),
             instrument_key, interval, Tail(api_candles))

SentApiCandles(instrument_key, interval, api_candles) ==
    [k \in DOMAIN api_candles |->
        IF api_candles[k].timestamp = 0
        THEN [NoJson EXCEPT !.layout = "api", !.close = api_candles[k].close]
        ELSE ApiCandleJson(instrument_key, interval, api_candles[k])]

\* variant of _send_ohlc_snapshot that sends nothing when there is no candle
_send_ohlc_snapshot_skip_empty(st, client_id, instrument_key, interval, candles) ==
    IF candles = <<>> THEN st
    ELSE Send(st, {client_id},
              [type |-> "ohlc_snapshot", instrument_key |-> instrument_key,
               interval |-> interval, candles |-> candles,
               candle_count |-> Len(candles)])

\* _send_ohlc_snapshot: the send raises on a closed socket (that of a session
\* that has ended is closed), which is logged
_send_ohlc_snapshot(st, client_id, instrument_key, interval, candles) ==
    Send(st, {client_id},
         [type |-> "ohlc_snapshot", instrument_key |-> instrument_key,
          interval |-> interval, candles |-> candles, candle_count |-> Len(candles)])

\* the task after the pair at the head of its list is done
TaskAdvance(task) ==
    IF Len(task.todo) = 1 THEN history_tasks \ {task}
    ELSE (history_tasks \ {task}) \cup {[task EXCEPT !.todo = Tail(@), !.pc = "cache"]}

\* A _send_historical_ohlc task runs up to its next await: at its start it
\* ends if the client is not registered; then _fetch_and_send_historical reads
\* the cache for the next pair and either sends the snapshot built from it or
\* hands the History API call to the executor.
HistoryCache(task) ==
    /\ loop_running
    /\ task \in history_tasks
    /\ task.pc \in {"start", "cache"}
    /\ last_op' = [op |-> "history_cache", task |-> task.id,
                   client_id |-> task.client_id, pair |-> Head(task.todo),
                   ran |-> ~(task.pc = "start" /\ task.client_id \notin DOMAIN subscribers),
                   follows |-> IF last_op.op = "subscribe_ohlc" /\ last_op.task = task.id
                               THEN last_op.follows ELSE [op |-> "other"]]
    /\ IF task.pc = "start" /\ task.client_id \notin DOMAIN subscribers
       THEN /\ history_tasks' = history_tasks \ {task}
            /\ outbox' = <<>>
            /\ UNCHANGED <<ingestVars, pending>>
       ELSE LET pair == Head(task.todo)
                res == _get_cached_ohlc_candles(Store, pair[1], pair[2])
                cached_candles == res[2]
            IN  IF cached_candles # <<>>
                THEN /\ SetSent(_send_ohlc_snapshot(res[1], task.client_id,
                                                    pair[1], pair[2], cached_candles))
                     /\ history_tasks' = TaskAdvance(task)
                ELSE /\ SetSent(res[1])
                     /\ history_tasks' =
                            (history_tasks \ {task}) \cup {[task EXCEPT !.pc = "api"]}
    /\ UNCHANGED <<connectorVars, registryVars, pending_request, redis_up, next_task, clock,
                   upstreamVars, sockets, loop_running>>

\* The History API call of a task returns api_candles (_fetch_ohlc_from_api
\* returns [] when the call fails or has no data): the candles are cached one by
\* one and the snapshot, possibly empty, is sent.
HistoryApi(task, api_candles) ==
    /\ loop_running
    /\ task \in history_tasks
    /\ task.pc = "api"
    /\ ncandles + Len(api_candles) <= MaxCandles
    /\ LET pair == Head(task.todo)
           st == CacheApiCandles(Store, pair[1], pair[2], api_candles)
       IN  SetSent(_send_ohlc_snapshot(st, task.client_id, pair[1], pair[2],
                       SentApiCandles(pair[1], pair[2], api_candles)))
    /\ history_tasks' = TaskAdvance(task)
    /\ ncandles' = ncandles + Len(api_candles)
    /\ last_op' = [op |-> "history_api", task |-> task.id, api_candles |-> api_candles,
                   client_id |-> task.client_id, pair |-> Head(task.todo)]
    /\ UNCHANGED <<connectorVars, registryVars, pending_request, redis_up, next_task, clock,
                   streamer_ts, sockets, loop_running>>

\* what the History API may return: up to MaxApiCandles candles, in any order
ApiCandles == [timestamp : Timestamps, close : Prices]
ApiResults == UNION {[1..n -> ApiCandles] : n \in 0..MaxApiCandles}

\* ----------------------------------------------------------- specifications
\* messages of one feed
Message(instrument_key, ltpc, ohlc) ==
    <<[instrument_key |-> instrument_key, ltpc |-> ltpc, ohlc |-> ohlc]>>

\* 1-minute candles from redundant connectors: every 1-minute item and the
\* two discarded ones for one instrument, one price for the other
MinuteMessages ==
    {Message("NIFTY", 0, <<item>>) : item \in {x \in OhlcItems : x.interval # "1d"}}
        \cup {Message("BANK", 0, <<item>>) :
                item \in {x \in OhlcItems : x.interval = "I1" /\ x.ts > 0 /\ x.close = 10}}

NextIngest ==
    \E s \in Streamers, m \in MinuteMessages : OnMarketMessage(s, m)

SpecIngest == Init /\ [][NextIngest]_vars

\* the 1-day candle of the first day, re-emitted with new values during the
\* day, and 1-minute candles of one instrument
DayMessages ==
    {Message("NIFTY", 0, <<item>>) :
        item \in {x \in OhlcItems :
                    (x.interval = "1d" /\ x.ts = 1)
                        \/ (x.interval = "I1" /\ x.ts > 0 /\ x.close = 10)}}

\* History API results at one price
FlatApiResults == {r \in ApiResults : \A k \in DOMAIN r : r[k].close = 10}

\* The cache written by the pipeline and by the history task of the first
\* subscription to candles with include_history.
NextCache ==
    \/ \E s \in Streamers, m \in DayMessages : OnMarketMessage(s, m)
    \/ WsConnect
    \/ \E c \in sessions, iv \in {"1min", "1day"} :
            next_task = 0 /\ WsSubscribeOhlc(c, {"NIFTY"}, Given({iv}), TRUE)
    \/ \E task \in history_tasks : HistoryCache(task)
    \/ \E task \in history_tasks, api_candles \in FlatApiResults :
            HistoryApi(task, api_candles)

SpecCache == Init /\ [][NextCache]_vars

\* the intervals key of an OHLC request: absent, [] or ["1min"]
IntervalArgs == {Absent, Given({}), Given({"1min"})}

\* Downstream sessions with their OHLC filters: the first connection sends
\* every form of OHLC request, the others subscribe to one candle series and
\* unsubscribe from everything.
NextOhlc ==
    \/ WsConnect
    \/ \E l \in {{}, {"NIFTY"}, Instruments}, iv \in IntervalArgs :
            WsSubscribeOhlc(1, l, iv, FALSE)
    \/ \E l \in {Absent, Given({"NIFTY"}), Given(Instruments)}, iv \in IntervalArgs :
            WsUnsubscribeOhlc(1, l, iv)
    \/ \E c \in sessions \ {1} :
            WsSubscribeOhlc(c, {"NIFTY"}, Given({"1min"}), FALSE)
    \/ \E c \in sessions \ {1} : WsUnsubscribeOhlc(c, Absent, Absent)
    \/ \E c \in sessions : WsGetOhlcSubscriptions(c)
    \/ \E c \in sessions : WsDisconnect(c)

SpecOhlc == Init /\ [][NextOhlc]_vars

\* ticks of one instrument
TickMessages == {Message("NIFTY", 10, <<>>)}

\* lists of a subscribe / unsubscribe request: none, one instrument, both
InstrumentLists == {{}, {"BANK"}, Instruments}

\* Downstream sessions with their tick filters, and ticks from upstream.
Next ==
    \/ WsConnect
    \/ \E c \in sessions, action \in {"subscribe", "unsubscribe"}, l \in InstrumentLists :
            WsUpdate(c, action, l)
    \/ \E c \in sessions : WsGetSubscriptions(c)
    \/ \E c \in sessions : WsDisconnect(c)
    \/ \E m \in TickMessages : OnMarketMessage(1, m)

Spec == Init /\ [][Next]_vars

\* portfolio updates, as opaque payloads
PortfolioMessages == {1, 2}

\* Downstream sessions with their tick filters, and portfolio updates from the
\* portfolio connectors.
NextPortfolio ==
    \/ WsConnect
    \/ \E c \in sessions, action \in {"subscribe", "unsubscribe"},
          l \in {{}, {"NIFTY"}} : WsUpdate(c, action, l)
    \/ \E c \in sessions : WsDisconnect(c)
    \/ \E s \in Streamers, message \in PortfolioMessages :
            OnPortfolioMessage(s, message)

SpecPortfolio == Init /\ [][NextPortfolio]_vars

\* frames of one instrument: its 1-minute candle, its 1-day candle, and an item
\* of an interval that is not ingested
CandleMessages ==
    {Message("NIFTY", 0, <<[interval |-> "I1", ts |-> 1, close |-> 10]>>),
     Message("NIFTY", 0, <<[interval |-> "1d", ts |-> 1, close |-> 10]>>),
     Message("NIFTY", 0, <<[interval |-> "I30", ts |-> 1, close |-> 10]>>)}

\* Downstream sessions with their OHLC filters and candles from upstream: the
\* second connection chooses its tick filter and its candle series, the others
\* subscribe to one candle series.
NextCandles ==
    \/ WsConnect
    \/ \E action \in {"subscribe", "unsubscribe"} : WsUpdate(2, action, {})
    \/ \E iv \in {Absent, Given({"1min"}), Given({"1day"})} :
            WsSubscribeOhlc(2, {"NIFTY"}, iv, FALSE)
    \/ WsUnsubscribeOhlc(2, Absent, Absent)
    \/ \E c \in sessions \ {2} : WsSubscribeOhlc(c, {"NIFTY"}, Given({"1day"}), FALSE)
    \/ \E c \in sessions : WsDisconnect(c)
    \/ \E m \in CandleMessages : OnMarketMessage(1, m)

SpecCandles == Init /\ [][NextCandles]_vars

\* a tick and a 1-minute candle of one instrument
SocketMessages ==
    {Message("NIFTY", 10, <<>>),
     Message("NIFTY", 0, <<[interval |-> "I1", ts |-> 1, close |-> 10]>>)}

\* Downstream sockets that stop being read or lose their peer, and a server
\* shutdown, while the connectors deliver ticks, candles and portfolio updates.
NextSockets ==
    \/ WsConnect
    \/ WsConnectAborted
    \/ \E c \in sessions : WsUpdate(c, "unsubscribe", {})
    \/ \E c \in sessions : WsSubscribeOhlc(c, {"NIFTY"}, Given({"1min"}), FALSE)
    \/ \E c \in sessions : WsDisconnect(c)
    \/ \E c \in sessions : ClientStalls(c)
    \/ \E c \in sessions : PeerCloses(c)
    \/ LoopCloses
    \/ \E m \in SocketMessages : OnMarketMessage(1, m)
    \/ OnPortfolioMessage(1, 1)

SpecSockets == Init /\ [][NextSockets]_vars

\* The upstream side alone: the instrument endpoints and the token reload,
\* with connectors that may refuse a request or fail to start.
\* mode arguments: none, a valid one, one that is not a mode
ModeArgs == {"", "ltpc", "tick"}
\* what each token source holds: <<Redis, token service, UPSTOX_ACCESS_TOKEN,
\* UPSTOX_ACCESS_TOKEN_SECONDARY>>
TokenSources ==
    {<< <<>>, <<>>, <<>>, 0 >>,
     << <<3>>, <<2>>, <<1>>, 0 >>,
     << <<3, 3>>, <<>>, <<>>, 3 >>,
     << <<>>, <<2>>, <<>>, 1 >>,
     << <<>>, <<>>, <<1>>, 0 >>,
     << <<3>>, <<>>, <<1, 2>>, 0 >>}
\* a deduplicated token list has at most one connector per token
Slots == 1..Cardinality(Tokens)
\* how the connectors start: all of them, all but the first, none
MarketOutcomes ==
    {[k \in Slots |-> "ok"],
     [k \in Slots |-> IF k = 1 THEN "construct" ELSE "ok"],
     [k \in Slots |-> IF k = 1 THEN "connect" ELSE "ok"],
     [k \in Slots |-> "construct"],
     [k \in Slots |-> "connect"]}
PortfolioOutcomes ==
    {[k \in Slots |-> "ok"], [k \in Slots |-> IF k = 1 THEN "connect" ELSE "ok"]}

\* a start in which market connectors fail, or portfolio connectors
StartCases ==
    {<<mo, [k \in Slots |-> "ok"]>> : mo \in MarketOutcomes}
        \cup {<<[k \in Slots |-> "ok"], po>> : po \in PortfolioOutcomes}

NextUpstream ==
    \/ \E l \in {{}, {"BANK"}, Instruments}, mode \in ModeArgs,
          accepts \in SUBSET Streamers :
          ChangeInstrumentMode(l, mode, accepts)
    \/ \E l \in {{}, {"BANK"}}, accepts \in {{}, {1}} :
          AddInstruments(l, accepts)
    \/ \E l \in {{}, {"BANK"}}, accepts \in {{}, {1}} :
          RemoveInstruments(l, accepts)
    \/ \E src \in TokenSources, o \in StartCases :
          AdminReloadTokens(src[1], src[2], src[3], src[4], o[1], o[2])

SpecUpstream == Init /\ [][NextUpstream]_vars

\* Downstream clients across token reloads: sessions with tick and OHLC
\* filters, reloads that find a new token or none, and ticks from whichever
\* connector is connected.
NextReload ==
    \/ WsConnect
    \/ \E c \in sessions : WsUpdate(c, "subscribe", {"NIFTY"})
    \/ \E c \in sessions : WsUpdate(c, "unsubscribe", {})
    \/ \E c \in sessions :
          WsSubscribeOhlc(c, {"NIFTY"}, Given({"1min"}), FALSE)
    \/ \E c \in sessions : WsDisconnect(c)
    \/ \E src \in {<< <<>>, <<>>, <<>>, 0 >>, << <<3>>, <<>>, <<>>, 0 >>} :
          AdminReloadTokens(src[1], src[2], src[3], src[4],
                            [k \in Slots |-> "ok"], [k \in Slots |-> "ok"])
    \/ \E s \in Streamers, m \in TickMessages : OnMarketMessage(s, m)

SpecReload == Init /\ [][NextReload]_vars

\* The service from the start of the process: a startup in which connectors
\* may fail to start, then the instrument endpoints and the token reload.
StartOutcomes ==
    {[k \in Slots |-> "ok"],
     [k \in Slots |-> IF k = 1 THEN "ok" ELSE "construct"],
     [k \in Slots |-> "construct"],
     [k \in Slots |-> "connect"]}

NextStartup ==
    \/ \E src \in TokenSources, l \in {{}, {"NIFTY"}, Instruments},
          mo \in StartOutcomes :
          Lifespan(src[1], src[2], src[3], src[4], l, mo, [k \in Slots |-> "ok"])
    \/ /\ Started
       /\ \E l \in {{"BANK"}, Instruments}, mode \in {"ltpc", "tick"},
             accepts \in {{}, {1}} : ChangeInstrumentMode(l, mode, accepts)
    \/ /\ Started
       /\ \E accepts \in {{}, {1}} : AddInstruments({"BANK"}, accepts)
    \/ /\ Started
       /\ \E accepts \in {{}, {1}} : RemoveInstruments({"BANK"}, accepts)
    \/ /\ Started
       /\ \E src \in {<< <<>>, <<>>, <<>>, 0 >>, << <<3>>, <<>>, <<>>, 0 >>},
             mo \in StartOutcomes :
             AdminReloadTokens(src[1], src[2], src[3], src[4], mo,
                               [k \in Slots |-> "ok"])

SpecStartup == InitLifespan /\ [][NextStartup]_vars

\* what the History API returns to a hydration: nothing (no data, or the call
\* failed), one candle of today, or two of them, the later one first
HistoryCandle(timestamp) == [timestamp |-> timestamp, close |-> 10]

HistoryResults ==
    {<<>>, <<HistoryCandle(1)>>, <<HistoryCandle(2), HistoryCandle(1)>>}

\* History hydration: clients subscribe to the 1-minute candles of one
\* instrument with include_history, one after the other or while an earlier
\* task is still running; they may leave, and Redis may fail.
NextHistory ==
    \/ WsConnect
    \/ \E c \in sessions : WsSubscribeOhlc(c, {"NIFTY"}, Given({"1min"}), TRUE)
    \/ \E task \in history_tasks : HistoryCache(task)
    \/ \E task \in history_tasks, api_candles \in HistoryResults :
            HistoryApi(task, api_candles)
    \/ \E c \in sessions : WsDisconnect(c)
    \/ RedisDown
    \/ RedisBack

\* Every writer of the series: the pipeline with 1-minute and 1-day candles
\* from both connectors, and the history task of one subscription.
NextSeries ==
    \/ \E s \in Streamers, m \in DayMessages : OnMarketMessage(s, m)
    \/ next_client = 0 /\ WsConnect
    \/ next_task = 0 /\ WsSubscribeOhlc(1, {"NIFTY"}, Given({"1min"}), TRUE)
    \/ \E task \in history_tasks : HistoryCache(task)
    \/ \E task \in history_tasks, api_candles \in HistoryResults :
            HistoryApi(task, api_candles)

SpecSeries == Init /\ [][NextSeries]_vars

\* Sessions that set their filters and send frames the loop cannot serve.
NextFrames ==
    \/ WsConnect
    \/ \E c \in sessions, l \in {{}, {"NIFTY"}} : WsUpdate(c, "subscribe", l)
    \/ \E c \in sessions, iv \in {Absent, Given({"1min"})} :
            WsSubscribeOhlc(c, {"NIFTY"}, iv, FALSE)
    \/ \E c \in sessions, frame \in BadFrames : WsBadFrame(c, frame)
    \/ \E c \in sessions : WsDisconnect(c)

SpecFrames == Init /\ [][NextFrames]_vars

SpecHistory == Init /\ [][NextHistory]_vars

\* The hydration tasks to their end: two clients connect, each subscribes once
\* to the 1-minute candles of one instrument, alone or with its 1-day candles,
\* and may leave. The event loop runs every task that is ready, and every
\* History API call handed to the executor returns (with candles, with none,
\* or by raising, which _fetch_ohlc_from_api turns into none).
HydrateClients == {1, 2}

HydrateTasks == 1..Cardinality(HydrateClients)

HydrateIntervals == {{"1min"}, {"1min", "1day"}}

HydrateResults == {<<>>, <<HistoryCandle(1)>>}

RunCache(t) == \E task \in history_tasks : task.id = t /\ HistoryCache(task)

RunApi(t) ==
    \E task \in history_tasks, api_candles \in HydrateResults :
        task.id = t /\ HistoryApi(task, api_candles)

NextHydrate ==
    \/ next_client + 1 \in HydrateClients /\ WsConnect
    \/ \E c \in sessions, ivs \in HydrateIntervals :
            /\ c \notin DOMAIN ohlc_subscribers
            /\ WsSubscribeOhlc(c, {"NIFTY"}, Given(ivs), TRUE)
    \/ \E t \in HydrateTasks : RunCache(t)
    \/ \E t \in HydrateTasks : RunApi(t)
    \/ \E c \in sessions : WsDisconnect(c)

SpecHydrate ==
    /\ Init
    /\ [][NextHydrate]_vars
    /\ \A t \in HydrateTasks : WF_vars(RunCache(t)) /\ WF_vars(RunApi(t))

\* The trading date over a process lifetime: the process starts at some moment
\* on a Redis that holds no trading date or the one a previous run stored (the
\* key has no expiry); then candles arrive from the connectors and the History
\* API, none stamped later than the wall clock, clients hydrate, the clock moves
\* on, and the scheduler refreshes the date at its hour.
InitRestart ==
    /\ Fresh
    /\ current_trading_date = 0
    /\ redis_trading_date \in {0, _calculate_trading_date(1)}
    /\ access_tokens = <<>>
    /\ market_streamers = <<>>
    /\ portfolio_streamers = <<>>
    /\ subscribed_instruments = {}
    /\ instrument_modes = <<>>
    /\ market_streamer_status = <<>>
    /\ portfolio_streamer_status = <<>>
    /\ market_connections = <<>>

\* daily_master_data_scheduler, one round: after the sleep to 08:00 the date of
\* the wall clock is stored in memory and, when Redis answers, in Redis
DailyScheduler ==
    /\ loop_running
    /\ LET trading_date == _calculate_trading_date(clock)
       IN  /\ current_trading_date' = trading_date
           /\ redis_trading_date' =
                  IF redis_up THEN trading_date ELSE redis_trading_date
    /\ last_op' = [op |-> "scheduler"]
    /\ outbox' = <<>>
    /\ UNCHANGED <<last_candle_state, zsets, latest, market_data_cache,
                   redis_market_data, redis_portfolio_data, registryVars,
                   pending_request, redis_up, taskVars, clock, upstreamVars,
                   socketVars, connectorVars>>

\* no candle of the frame is stamped later than the wall clock
NotAhead(feeds) ==
    \A k \in DOMAIN feeds :
        \A n \in DOMAIN feeds[k].ohlc : feeds[k].ohlc[n].ts <= clock

NextDates ==
    \/ ClockTick
    \/ Lifespan(<<>>, <<2>>, <<1>>, 0, Instruments,
                [k \in Slots |-> "ok"], [k \in Slots |-> "ok"])
    \/ Started /\ DailyScheduler
    \/ \E m \in DayMessages : NotAhead(m) /\ OnMarketMessage(1, m)
    \/ Started /\ next_client = 0 /\ WsConnect
    \/ next_task = 0 /\ WsSubscribeOhlc(1, {"NIFTY"}, Given({"1min"}), TRUE)
    \/ \E task \in history_tasks : HistoryCache(task)
    \/ \E task \in history_tasks, api_candles \in HistoryResults :
            /\ \A n \in DOMAIN api_candles : api_candles[n].timestamp <= clock
            /\ HistoryApi(task, api_candles)
    \/ RedisDown
    \/ RedisBack

SpecDates == InitRestart /\ [][NextDates]_vars

\* ------------------------------------------------------- connector status
\* retry_count of streamer.auto_reconnect(True, interval=10, retry_count=5)
RetryCount == 5

\* the message of the SDK's reconnecting event, "... attempt n/m", and one
\* without a "/"; the other events' arguments are only logged or copied
Numbered(n) == [slash |-> TRUE, attempt |-> n]
Plain == [slash |-> FALSE, attempt |-> 0]

\* the record at streamer_index changed to `changed`, when the list has that
\* index (`if streamer_index < len(self.market_streamer_status)`)
AtIndex(status, streamer_index, changed) ==
    IF streamer_index <= Len(status)
    THEN [status EXCEPT ![streamer_index] = changed]
    ELSE status

_on_market_open(status, streamer_index) ==
    AtIndex(status, streamer_index,
            [status[streamer_index] EXCEPT !.connected = TRUE,
                                           !.last_error = "none",
                                           !.reconnecting = FALSE,
                                           !.reconnect_attempts = 0])

_on_market_reconnecting(status, message, streamer_index) ==
    AtIndex(status, streamer_index,
            [status[streamer_index] EXCEPT
                !.reconnecting = TRUE,
                !.connected = FALSE,
                !.reconnect_attempts = IF message.slash THEN message.attempt
                                       ELSE @])

\* a variant that leaves the reconnecting flag as it is
_on_market_auto_reconnect_stopped_flag_kept(status, streamer_index) ==
    AtIndex(status, streamer_index,
            [status[streamer_index] EXCEPT !.connected = FALSE,
                                           !.last_error = "stopped"])

_on_market_auto_reconnect_stopped(status, streamer_index) ==
    AtIndex(status, streamer_index,
            [status[streamer_index] EXCEPT !.reconnecting = FALSE,
                                           !.connected = FALSE,
                                           !.last_error = "stopped"])

_on_market_error(status, streamer_index) ==
    AtIndex(status, streamer_index,
            [status[streamer_index] EXCEPT !.last_error = "error",
                                           !.connected = FALSE])

_on_market_close(status, streamer_index) ==
    AtIndex(status, streamer_index,
            [status[streamer_index] EXCEPT !.connected = FALSE,
                                           !.last_error = "closed"])

\* get_streamer_status()["market_streamers"] without the status list
get_streamer_status ==
    [total |-> Len(market_streamers),
     active |-> Cardinality(ActiveStreamers(Upstream)),
     connected |-> Cardinality({k \in DOMAIN market_streamer_status :
                                   market_streamer_status[k].connected})]

\* The SDK thread of connector idx emits an event and enters the handler the
\* stream start registered for it, a closure over the index. What the SDK emits
\* follows its connection: open after connecting or a reconnect attempt, close
\* and error on a connection, at most RetryCount numbered reconnect attempts
\* after a close, then autoReconnectStopped. The thread runs one handler at a
\* time. Reconnect attempts are `interval` (10 s) apart: by the second one
\* every handler that a thread had entered before a reload has returned.
StatusEvents == {"open", "close", "error", "reconnecting", "auto_reconnect_stopped"}

After(conn, event) ==
    IF event = "open" THEN [phase |-> "open", attempts |-> 0]
    ELSE IF event = "close" THEN [conn EXCEPT !.phase = "closed"]
    ELSE IF event = "reconnecting"
    THEN [phase |-> "reconnecting", attempts |-> conn.attempts + 1]
    ELSE IF event = "auto_reconnect_stopped" THEN [conn EXCEPT !.phase = "stopped"]
    ELSE conn

Emits(conn, event) ==
    IF event = "open" THEN conn.phase \in {"connecting", "reconnecting"}
    ELSE IF event = "close" THEN conn.phase \in {"connecting", "open"}
    ELSE IF event = "error" THEN conn.phase \in {"open", "reconnecting"}
    ELSE IF event = "reconnecting"
    THEN conn.phase \in {"closed", "reconnecting"} /\ conn.attempts < RetryCount
    ELSE conn.phase = "reconnecting" /\ conn.attempts = RetryCount

MarketEvent(idx, event, message) ==
    /\ Delivers(market_streamers, idx)
    /\ ~\E c \in callbacks : c.streamer_index = idx /\ ~c.stale
    /\ Cardinality(callbacks) < MaxCallbacks
    /\ Emits(market_connections[idx], event)
    /\ (event = "reconnecting" /\ market_connections[idx].attempts >= 1) =>
            ~\E c \in callbacks : c.stale
    /\ market_connections' =
           [market_connections EXCEPT ![idx] = After(@, event)]
    /\ callbacks' = callbacks \cup
           {[streamer_index |-> idx, event |-> event, message |-> message,
             stale |-> FALSE]}
    /\ last_op' = [op |-> "market_event", event |-> event, streamer_index |-> idx]
    /\ outbox' = <<>>
    /\ UNCHANGED <<access_tokens, market_streamers, portfolio_streamers,
                   subscribed_instruments, instrument_modes,
                   market_streamer_status, portfolio_streamer_status,
                   ingestVars, registryVars, pending_request, redis_up,
                   taskVars, clock, upstreamVars, socketVars>>

\* the handler of an event, from its test of the index to its end
Handled(status, c) ==
    IF c.event = "open" THEN _on_market_open(status, c.streamer_index)
    ELSE IF c.event = "close" THEN _on_market_close(status, c.streamer_index)
    ELSE IF c.event = "error" THEN _on_market_error(status, c.streamer_index)
    ELSE IF c.event = "reconnecting"
    THEN _on_market_reconnecting(status, c.message, c.streamer_index)
    ELSE _on_market_auto_reconnect_stopped(status, c.streamer_index)

\* A handler that was entered runs on the status list the service holds now.
RunCallback(c) ==
    /\ c \in callbacks
    /\ market_streamer_status' = Handled(market_streamer_status, c)
    /\ callbacks' = callbacks \ {c}
    /\ last_op' = [op |-> "callback", event |-> c.event,
                   streamer_index |-> c.streamer_index, stale |-> c.stale]
    /\ outbox' = <<>>
    /\ UNCHANGED <<access_tokens, market_streamers, portfolio_streamers,
                   subscribed_instruments, instrument_modes,
                   portfolio_streamer_status, market_connections,
                   ingestVars, registryVars, pending_request, redis_up,
                   taskVars, clock, upstreamVars, socketVars>>

\* Connector status: the connectors connect, drop, retry and give up, their
\* handlers run on SDK threads, and tokens are reloaded meanwhile, with every
\* new connector starting or with the first one failing in connect().
ReloadStarts ==
    {[k \in Slots |-> "ok"], [k \in Slots |-> IF k = 1 THEN "connect" ELSE "ok"]}

NextStatus ==
    \/ \E idx \in Slots, event \in StatusEvents \ {"reconnecting"} :
            MarketEvent(idx, event, Plain)
    \/ \E idx \in DOMAIN market_connections :
            \E message \in {Numbered(market_connections[idx].attempts + 1), Plain} :
                MarketEvent(idx, "reconnecting", message)
    \/ \E c \in callbacks : RunCallback(c)
    \/ \E src \in {<< <<3>>, <<>>, <<>>, 0 >>, << <<3>>, <<2>>, <<>>, 0 >>},
          mo \in ReloadStarts :
            AdminReloadTokens(src[1], src[2], src[3], src[4], mo,
                              [k \in Slots |-> "ok"])

SpecStatus == Init /\ [][NextStatus]_vars

\* Ingestion while Redis fails: clients with the default tick filter, one of
\* them with an OHLC filter on every interval of one instrument; frames that
\* carry a tick and the 1-day candle of an instrument, ticks of both
\* instruments, or the candle alone; Redis goes down and comes back.
DegradedMessages ==
    {Message("NIFTY", 10, <<[interval |-> "1d", ts |-> 1, close |-> 10]>>),
     Message("NIFTY", 0, <<[interval |-> "1d", ts |-> 1, close |-> 11]>>),
     Message("NIFTY", 10, <<>>) \o Message("BANK", 11, <<>>)}

NextDegraded ==
    \/ WsConnect
    \/ \E c \in sessions : WsSubscribeOhlc(c, {"NIFTY"}, Absent, FALSE)
    \/ \E c \in sessions : WsDisconnect(c)
    \/ \E s \in Streamers, m \in DegradedMessages : OnMarketMessage(s, m)
    \/ RedisDown
    \/ RedisBack

SpecDegraded == Init /\ [][NextDegraded]_vars

\* The registry while broadcasts evict: clients connect (or are gone before the
\* connection message), subscribe to candles, drop the subscription and leave;
\* connectors deliver ticks and candles; the event loop is closed at the end,
\* and the connector threads go on delivering.
NextEvict ==
    \/ WsConnect
    \/ WsConnectAborted
    \/ \E c \in sessions : WsSubscribeOhlc(c, {"NIFTY"}, Given({"1min"}), FALSE)
    \/ \E c \in sessions : WsUnsubscribeOhlc(c, Given({"NIFTY"}), Absent)
    \/ \E c \in sessions : WsDisconnect(c)
    \/ LoopCloses
    \/ \E m \in SocketMessages : OnMarketMessage(1, m)

SpecEvict == Init /\ [][NextEvict]_vars

\* ================================================================== claims
\* the tick filter of a registered client
Filter(c) == Subscriptions(Registry, c)

\* the handler that just ran sent client c a tick of instrument i
TickSentTo(c, i) ==
    \E k \in DOMAIN outbox :
        /\ outbox[k].msg.type = "market_data"
        /\ outbox[k].msg.instrument_key = i
        /\ c \in outbox[k].to

\* the instruments whose tick the connector message that was just handled carried
TickedInstruments ==
    IF last_op.op # "market_message" THEN {}
    ELSE {last_op.feeds[k].instrument_key :
            k \in {j \in DOMAIN last_op.feeds : last_op.feeds[j].ltpc # 0}}

\* the reply the request that was just handled got
Reply == outbox[1].msg

\* C5: once a connector message with a tick of instrument I has been handled
\* (the cache being reachable), the tick was sent to a registered client if and
\* only if its tick filter contains "*" or I, and to nobody else.
C5_TickRouting ==
    redis_up =>
        \A i \in TickedInstruments :
            /\ \A c \in DOMAIN subscribers :
                   TickSentTo(c, i) <=> ("*" \in Filter(c) \/ i \in Filter(c))
            /\ \A k \in DOMAIN outbox : outbox[k].to \subseteq DOMAIN subscribers

\* C5 witness: a tick was sent to a client whose filter names the instrument
\* but not "*", and not to another registered client
C5_Witness ==
    \E i \in TickedInstruments : \E c, d \in DOMAIN subscribers :
        /\ TickSentTo(c, i) /\ "*" \notin Filter(c)
        /\ ~TickSentTo(d, i)

\* C6: a client whose first request after connecting is subscribe [I] gets a
\* subscription_update with current_subscriptions exactly [I], and until its
\* next request it is sent the ticks of I and of no other instrument.
C6_FreshSubscribeIsExact ==
    /\ (/\ last_op.op = "subscribe"
        /\ last_op.client_id = 1
        /\ pending_request.first
        /\ \E i \in Instruments : pending_request.instruments = {i})
           => Reply.current_subscriptions = pending_request.instruments
    /\ (/\ pending_request.action = "subscribe"
        /\ pending_request.first
        /\ \E i \in Instruments : pending_request.instruments = {i})
           => \A j \in TickedInstruments :
                  TickSentTo(1, j) <=> j \in pending_request.instruments

\* C7: a step that accepts a client registers it under an id no registered
\* client has, with tick filter {"*"} and no OHLC filter, and sends it the
\* connection message with that filter; the other entries stay as they are;
\* no two clients refer to one set object, and a subscribe or unsubscribe of
\* one client leaves every other client's filter as it was.
C7_Step ==
    /\ last_op'.op = "connect" =>
          LET c == last_op'.client_id IN
          /\ c \notin DOMAIN subscribers
          /\ DOMAIN subscribers' = DOMAIN subscribers \cup {c}
          /\ Subscriptions(Registry', c) = {"*"}
          /\ c \notin DOMAIN ohlc_subscribers'
          /\ outbox' = <<[to |-> {c},
                         msg |-> [type |-> "connection", client_id |-> c,
                                  current_subscriptions |-> {"*"}]]>>
          /\ \A d \in DOMAIN subscribers :
                 Subscriptions(Registry', d) = Subscriptions(Registry, d)
    /\ last_op'.op \in {"subscribe", "unsubscribe"} =>
          \A d \in DOMAIN subscribers \ {last_op'.client_id} :
              /\ d \in DOMAIN subscribers'
              /\ Subscriptions(Registry', d) = Subscriptions(Registry, d)
    /\ \A c, d \in DOMAIN subscribers' :
          c # d => subscribers'[c].subscriptions # subscribers'[d].subscriptions

C7_FreshClient == [][C7_Step]_vars

\* C7 witness: a client has just narrowed its filter while another registered
\* client still has the filter it was given when accepted
C7_Witness ==
    /\ last_op.op = "unsubscribe"
    /\ last_op.client_id \in DOMAIN subscribers
    /\ Filter(last_op.client_id) = {}
    /\ \E d \in DOMAIN subscribers \ {last_op.client_id} : Filter(d) = {"*"}

\* C8: when a client's get_subscriptions directly follows its subscribe (events
\* may have been broadcast in between), the reply lists exactly the filter the
\* client had before the subscribe together with the listed instruments.
C8_SubscribeThenGet ==
    (/\ last_op.op = "get_subscriptions"
     /\ last_op.after.action = "subscribe")
        => Reply.current_subscriptions =
               last_op.after.before \cup last_op.after.instruments

\* C8 witness: the reply to a get_subscriptions that followed subscribe [A, B]
\* with a broadcast in between, the filter before holding neither A nor B
C8_Witness ==
    /\ last_op.op = "get_subscriptions"
    /\ last_op.after.action = "subscribe"
    /\ last_op.after.instruments = Instruments
    /\ last_op.after.before \cap Instruments = {}
    /\ last_op.after.broadcasts
    /\ Reply.current_subscriptions = last_op.after.before \cup Instruments

\* a client's unsubscribe [I] has just followed its subscribe [I]
C9_RoundTrip ==
    /\ last_op.op = "unsubscribe"
    /\ last_op.after.action = "subscribe"
    /\ last_op.after.instruments = last_op.instruments
    /\ \E i \in Instruments : last_op.instruments = {i}

\* C9 as stated: subscribe [I] followed by unsubscribe [I] leaves the client's
\* tick filter equal to the filter F it had before.
C9_RoundTripRestores ==
    C9_RoundTrip => Filter(last_op.client_id) = last_op.after.before

\* C9: subscribe [I] followed by unsubscribe [I] leaves the client's tick filter
\* equal to F without I: equal to F when I was not in F.
C9_RoundTripRemoves ==
    C9_RoundTrip =>
        /\ Filter(last_op.client_id) = last_op.after.before \ last_op.instruments
        /\ (last_op.instruments \cap last_op.after.before = {}
                => Filter(last_op.client_id) = last_op.after.before)

\* C9 witness: a round trip from a non-empty filter that did not hold I
C9_Witness ==
    /\ C9_RoundTrip
    /\ last_op.after.before # {}
    /\ last_op.instruments \cap last_op.after.before = {}
    /\ Filter(last_op.client_id) = last_op.after.before

\* the 1-minute series of an instrument on the trading date of a timestamp
MinuteKey(instrument_key, timestamp) ==
    <<_calculate_trading_date(timestamp), instrument_key, "1min">>

\* the 1-minute candle of a frame, as the pipeline keeps it while it is active
ActiveCandle(instrument_key, ohlc_item) ==
    [instrument_key |-> instrument_key, interval |-> "1min",
     close |-> ohlc_item.close, timestamp |-> ohlc_item.ts,
     candle_status |-> "active"]

\* a step that handles a frame with one 1-minute candle, the cache being
\* reachable
C1_Frame ==
    /\ last_op'.op = "market_message"
    /\ Len(last_op'.feeds) = 1
    /\ Len(last_op'.feeds[1].ohlc) = 1
    /\ last_op'.feeds[1].ohlc[1].interval = "I1"
    /\ last_op'.feeds[1].ohlc[1].ts > 0
    /\ redis_up

\* what the step does, I being the frame's instrument, T2 its start-timestamp
\* and T1 the recorded last start-timestamp of I
C1_Step ==
    C1_Frame =>
        LET I == last_op'.feeds[1].instrument_key
            item == last_op'.feeds[1].ohlc[1]
            T2 == item.ts
            T1 == last_candle_state[I].last_timestamp
            previous == last_candle_state[I].last_candle
            completed == CandleJson([previous EXCEPT !.candle_status = "completed"])
            key == MinuteKey(I, T1)
        IN  T1 > 0 =>
                /\ last_candle_state'[I] =
                       [last_timestamp |-> T2, last_candle |-> ActiveCandle(I, item)]
                /\ T1 # T2 =>
                       /\ previous.timestamp = T1
                       /\ [member |-> completed, score |-> T1] \in zsets'[key]
                       /\ latest'[key] = completed
                       /\ completed.candle_status = "completed"
                /\ T1 = T2 => zsets' = zsets /\ latest' = latest

\* C1: when a 1-minute frame for instrument I arrives with start-timestamp T2
\* while the recorded last start-timestamp T1 of I is set (the cache being
\* reachable): if T1 # T2 the candle that was active (T1) is in the series at
\* score T1 with status completed, :latest is that candle and the active candle
\* is the T2 candle with status active; if T2 = T1 the cache is left as it was
\* and the active candle is replaced by the frame's.
C1_MinuteTransition == [][C1_Step]_vars

\* C1 witness: after a frame of a later minute, the candle of the minute before
\* is completed in the series and in :latest, and the frame's candle is active
C1_Witness ==
    \E I \in Instruments, T1 \in Timestamps :
        LET active == last_candle_state[I].last_candle
            key == MinuteKey(I, T1)
        IN  /\ last_op.op = "market_message"
            /\ last_op.feeds[1].instrument_key = I
            /\ active.candle_status = "active"
            /\ active.timestamp = last_candle_state[I].last_timestamp
            /\ active.timestamp > T1
            /\ latest[key] # NoJson
            /\ latest[key].timestamp = T1
            /\ latest[key].candle_status = "completed"
            /\ [member |-> latest[key], score |-> T1] \in zsets[key]

\* no two members of the series have one score
OneMemberPerScore(key) ==
    \A e1, e2 \in zsets[key] : e1.score = e2.score => e1 = e2

\* C2: whatever 1-minute frames the redundant connectors have delivered, in
\* whatever interleaving, every 1-minute series holds one entry per
\* start-timestamp: no two members have the same score.
C2_OneEntryPerMinute ==
    \A key \in SeriesKeys : key[3] = "1min" => OneMemberPerScore(key)

\* C3: a candle written to a series at a start-timestamp the series already
\* holds replaces the member at that score, also when its field values differ:
\* every series has one member per score.
C3_OneMemberPerTimestamp ==
    \A key \in SeriesKeys : OneMemberPerScore(key)

\* C4: after whatever writes the pipeline and the history tasks have made to a
\* series, :latest is a member of the series and no member has a greater
\* start-timestamp.
C4_LatestIsGreatest ==
    \A key \in SeriesKeys :
        latest[key] # NoJson =>
            /\ \E e \in zsets[key] : e.member = latest[key]
            /\ \A e \in zsets[key] : e.score <= latest[key].timestamp

\* the (instrument, interval) entries of an OHLC filter
Pairs(m) == UNION {{<<i, v>> : v \in m[i]} : i \in DOMAIN m}

\* the OHLC filter of a client, {} (as a dict) when it has none
OhlcFilter(c) == get_client_ohlc_subscriptions(Registry, c)

\* a client's unsubscribe_ohlc has just followed its subscribe_ohlc, with the
\* same instruments and the same intervals key
C10_RoundTrip ==
    /\ last_op.op = "unsubscribe_ohlc"
    /\ last_op.after.action = "subscribe_ohlc"
    /\ last_op.instruments = Given(last_op.after.instruments)
    /\ last_op.intervals = last_op.after.intervals

\* C10 as stated: the unsubscribe_ohlc removes every entry the subscribe_ohlc
\* added and no entry that was in the filter M before it.
C10_RoundTripRestores ==
    C10_RoundTrip =>
        LET M == Pairs(last_op.after.before)
            added == Pairs(last_op.after.filter) \ M
            now == Pairs(OhlcFilter(last_op.client_id))
        IN  /\ added \cap now = {}
            /\ M \subseteq now

\* C10: after subscribe_ohlc(Is, Iv) and unsubscribe_ohlc(Is, Iv) on a filter M:
\* with Iv a non-empty list the filter is M without the entries of Is x Iv (the
\* added entries are gone, and of M those that were in Is x Iv); with the
\* intervals key absent it is M without every entry of the instruments in Is;
\* with Iv = [] it is M with (I, "*") added for every I in Is. No instrument is
\* left with an empty set.
C10_RoundTripRemovesListed ==
    C10_RoundTrip =>
        LET M == Pairs(last_op.after.before)
            Is == last_op.after.instruments
            Iv == last_op.intervals
            now == OhlcFilter(last_op.client_id)
        IN  /\ \A i \in DOMAIN now : now[i] # {}
            /\ Pairs(now) =
                 IF ~Iv.present THEN {p \in M : p[1] \notin Is}
                 ELSE IF Iv.items = {} THEN M \cup (Is \X {"*"})
                 ELSE M \ (Is \X Iv.items)
            /\ (Iv.present /\ Iv.items # {} /\ M \cap (Is \X Iv.items) = {})
                   => Pairs(now) = M

\* C10 witness: a round trip with listed intervals on a filter that had other
\* entries and none of the listed ones: the added entries are gone, M is kept
C10_Witness ==
    /\ C10_RoundTrip
    /\ last_op.intervals.present
    /\ last_op.intervals.items # {}
    /\ Pairs(last_op.after.before) # {}
    /\ Pairs(last_op.after.filter) # Pairs(last_op.after.before)
    /\ Pairs(OhlcFilter(last_op.client_id)) = Pairs(last_op.after.before)

\* a step that handles an unsubscribe_ohlc of a client that has an OHLC filter
C11_Step ==
    (/\ last_op'.op = "unsubscribe_ohlc"
     /\ last_op'.client_id \in DOMAIN ohlc_subscribers)
        => LET c == last_op'.client_id
               Is == last_op'.instruments
               Iv == last_op'.intervals
               old == ohlc_subscribers[c]
               now == get_client_ohlc_subscriptions(Registry', c)
           IN  /\ ~Is.present => c \notin DOMAIN ohlc_subscribers'
               /\ (Is.present /\ ~Iv.present)
                      => Pairs(now) = {p \in Pairs(old) : p[1] \notin Is.items}
               /\ (Is.present /\ Iv.present)
                      => Pairs(now) = Pairs(old) \ (Is.items \X Iv.items)
               /\ Is.present
                      => \A i \in DOMAIN old \ Is.items :
                             i \in DOMAIN now /\ now[i] = old[i]
               /\ \A i \in DOMAIN now : now[i] # {}
               /\ \A d \in DOMAIN ohlc_subscribers \ {c} :
                      /\ d \in DOMAIN ohlc_subscribers'
                      /\ ohlc_subscribers'[d] = ohlc_subscribers[d]

\* C11: unsubscribe_ohlc of a client with an OHLC filter: with instruments
\* absent the client's whole filter is cleared; with instruments Is and
\* intervals absent exactly the entries of the instruments in Is are removed;
\* with Is and intervals Iv exactly the intervals in Iv are removed from each
\* instrument in Is. The entries of instruments not in Is stay as they were,
\* no instrument is left mapped to an empty interval set, and the filters of
\* the other clients are not touched.
C11_ThreeLevelWildcard == [][C11_Step]_vars

\* C11 witness: directly after a subscribe_ohlc that left two instruments in
\* the filter, an unsubscribe_ohlc with one instrument and listed intervals has
\* emptied that instrument's set, so it is gone, and the other is as it was
C11_Witness ==
    /\ last_op.op = "unsubscribe_ohlc"
    /\ last_op.after.action = "subscribe_ohlc"
    /\ last_op.instruments = Given({"NIFTY"})
    /\ last_op.intervals.present
    /\ last_op.intervals.items # {}
    /\ DOMAIN last_op.after.filter = Instruments
    /\ DOMAIN OhlcFilter(last_op.client_id) = {"BANK"}
    /\ OhlcFilter(last_op.client_id)["BANK"] = last_op.after.filter["BANK"]

\* the candle events of the connector message that was just handled: the
\* (instrument, interval) of every item of an ingested interval with a `ts`
CandleEvents ==
    IF last_op.op # "market_message" THEN {}
    ELSE UNION {{<<last_op.feeds[k].instrument_key,
                   IntervalMap(last_op.feeds[k].ohlc[j].interval)>> :
                    j \in {x \in DOMAIN last_op.feeds[k].ohlc :
                              /\ IntervalMap(last_op.feeds[k].ohlc[x].interval) # ""
                              /\ last_op.feeds[k].ohlc[x].ts # 0}} :
                k \in DOMAIN last_op.feeds}

\* the handler that just ran sent client c a candle of (instrument i, interval v)
CandleSentTo(c, i, v) ==
    \E k \in DOMAIN outbox :
        /\ outbox[k].msg.type = "ohlc_data"
        /\ outbox[k].msg.data.instrument_key = i
        /\ outbox[k].msg.data.interval = v
        /\ c \in outbox[k].to

\* the OHLC filter of client c admits (instrument i, interval v)
OhlcAdmits(c, i, v) ==
    /\ i \in DOMAIN OhlcFilter(c)
    /\ ("*" \in OhlcFilter(c)[i] \/ v \in OhlcFilter(c)[i])

\* C12: once a connector message has been handled (the cache being reachable),
\* a candle of (I, v) was sent to a registered client if and only if the
\* message carried a candle of (I, v) and the client's OHLC filter maps I to a
\* set containing "*" or v, whatever its tick filter is, and to nobody else.
C12_CandleRouting ==
    (redis_up /\ last_op.op = "market_message") =>
        /\ \A c \in DOMAIN subscribers, i \in Instruments, v \in Intervals :
               CandleSentTo(c, i, v) <=> (<<i, v>> \in CandleEvents /\ OhlcAdmits(c, i, v))
        /\ \A k \in DOMAIN outbox : outbox[k].to \subseteq DOMAIN subscribers

\* C12 witness: a 1-minute candle was sent to a client whose tick filter is
\* empty, and not to a registered client whose tick filter is {"*"} and whose
\* OHLC filter names the instrument with another interval
C12_Witness ==
    \E c, d \in DOMAIN subscribers :
        /\ <<"NIFTY", "1min">> \in CandleEvents
        /\ CandleSentTo(c, "NIFTY", "1min") /\ Filter(c) = {}
        /\ ~CandleSentTo(d, "NIFTY", "1min") /\ "*" \in Filter(d)
        /\ "NIFTY" \in DOMAIN OhlcFilter(d)

\* the handler that just ran sent client c a portfolio event
PortfolioSentTo(c) ==
    \E k \in DOMAIN outbox :
        outbox[k].msg.type = "portfolio_data" /\ c \in outbox[k].to

\* C13: once a portfolio message has been handled (the cache being reachable),
\* the portfolio event was sent to exactly the registered clients whose tick
\* filter contains "*": a client whose filter holds only instruments got none.
C13_PortfolioRouting ==
    (redis_up /\ last_op.op = "portfolio_message") =>
        /\ \A c \in DOMAIN subscribers : PortfolioSentTo(c) <=> "*" \in Filter(c)
        /\ \A k \in DOMAIN outbox :
               /\ outbox[k].to \subseteq DOMAIN subscribers
               /\ outbox[k].msg = [type |-> "portfolio_data",
                                   data |-> last_op.message]

\* C13 witness: a portfolio event was sent to one registered client and not to
\* another whose filter holds an instrument and no "*"
C13_Witness ==
    /\ last_op.op = "portfolio_message"
    /\ \E c, d \in DOMAIN subscribers :
          /\ PortfolioSentTo(c)
          /\ ~PortfolioSentTo(d) /\ Filter(d) = {"NIFTY"}

\* C14: a client has an entry in the registry exactly while its session is
\* running on its socket: the tick entries are those of the running sessions,
\* every OHLC entry is one of a running session, and no frame is sent to a
\* client whose session has ended.
C14_RegisteredWhileOpen ==
    loop_running =>
        /\ DOMAIN subscribers = sessions
        /\ DOMAIN ohlc_subscribers \subseteq sessions
        /\ \A k \in DOMAIN outbox : outbox[k].to \subseteq sessions

\* the clients the event(s) of the message that was just handled matched, by
\* the registry as the handler left it
Matching ==
    {c \in DOMAIN subscribers :
        \/ \E i \in TickedInstruments : "*" \in Filter(c) \/ i \in Filter(c)
        \/ \E e \in CandleEvents : OhlcAdmits(c, e[1], e[2])
        \/ last_op.op = "portfolio_message" /\ "*" \in Filter(c)}

\* C15: after a broadcast in which the send to a matching client failed, that
\* client has neither a tick filter nor an OHLC filter in the registry, and
\* every other matching client was sent the event.
C15_FailedSendEvicts ==
    last_op.op \in {"market_message", "portfolio_message"} =>
        /\ \A c \in last_op.failed :
               c \notin DOMAIN subscribers /\ c \notin DOMAIN ohlc_subscribers
        /\ last_op.failed # {} =>
               \A d \in Matching \ last_op.failed :
                   sockets[d] = "open" => \E k \in DOMAIN outbox : d \in outbox[k].to

\* C16: there is a bound on the frames pending for a client: a client that has
\* that many frames pending is no longer in the registry.
C16_EvictedAtBound ==
    \E bound \in 1..MaxPending :
        \A c \in DOMAIN pending :
            pending[c] >= bound =>
                c \notin DOMAIN subscribers /\ c \notin DOMAIN ohlc_subscribers

\* ------------------------------------------------------------------- C17
\* C17: for listed instruments that are all subscribed and a valid mode,
\* change_mode succeeds exactly when at least one active connector accepts the
\* change; on success every listed instrument has the new mode in
\* instrument_modes whichever connectors refused; on any failure
\* instrument_modes is unchanged.
C17_Step ==
    last_op'.op = "change_mode" =>
        LET instruments == last_op'.instruments
            mode == last_op'.mode
            accepted == ActiveStreamers(Upstream) \cap last_op'.accepts
            success == last_op'.status = 200
        IN  /\ (/\ instruments # {}
                /\ instruments \subseteq subscribed_instruments
                /\ mode \in ValidModes)
               => (success <=> accepted # {})
            /\ success => \A i \in instruments : instrument_modes'[i] = mode
            /\ ~success => instrument_modes' = instrument_modes

C17_ChangeMode == [][C17_Step]_vars

\* a change of mode succeeded although an active connector refused it
C17_Witness ==
    /\ last_op.op = "change_mode"
    /\ last_op.status = 200
    /\ \E k \in ActiveStreamers(Upstream) : k \notin last_op.accepts
    /\ \A i \in last_op.instruments : instrument_modes[i] = "ltpc"

\* ------------------------------------------------------------------- C18
\* C18: a token reload that completes leaves subscribed_instruments and the
\* instrument -> mode map exactly as they were before it.
C18_Step ==
    (last_op'.op = "reload_tokens" /\ last_op'.status = 200) =>
        /\ subscribed_instruments' = subscribed_instruments
        /\ instrument_modes' = instrument_modes

C18_ReloadPreservesModes == [][C18_Step]_vars

\* ------------------------------------------------------------------- C20
\* some connector of the list is connected
SomeRunning(streamers) ==
    \E k \in DOMAIN streamers : streamers[k] # NoStreamer /\ streamers[k].running

C20_Step ==
    (last_op'.op = "reload_tokens" /\ last_op'.tokens = <<>>) =>
        /\ last_op'.status = 500
        /\ UNCHANGED connectorVars

TicksRouted ==
    \A i \in TickedInstruments : \A c \in DOMAIN subscribers :
        TickSentTo(c, i) <=> ("*" \in Filter(c) \/ i \in Filter(c))

\* C19: a token reload leaves the registered clients, their tick filters and
\* their OHLC filters as they were, and a tick that arrives on a connector
\* built by a reload is routed to the clients by those filters.
C19_Step ==
    /\ last_op'.op = "reload_tokens" =>
           UNCHANGED <<sessions, sockets, subscribers, set_objects,
                       ohlc_subscribers>>
    /\ (last_op'.op = "market_message" /\ last_op'.token \notin {1, 2}) =>
           TicksRouted'

C19_ReloadKeepsDownstream == [][C19_Step]_vars

\* after a reload, a tick from a connector on the new token went to a client
\* whose tick filter names the instrument and who holds an OHLC subscription,
\* and not to another client
C19_Witness ==
    /\ last_op.op = "market_message"
    /\ last_op.token = 3
    /\ \E c, d \in DOMAIN subscribers :
           /\ Filter(c) = {"NIFTY"}
           /\ c \in DOMAIN ohlc_subscribers
           /\ TickSentTo(c, "NIFTY")
           /\ ~TickSentTo(d, "NIFTY")

\* ------------------------------------------------------------------- C21
\* C21 as stated: an upstream subscribe or unsubscribe reports success if and
\* only if at least one active connector accepts it; subscribed_instruments and
\* the mode map change only in that case.
C21_OrigStep ==
    (last_op'.op \in {"add_instruments", "remove_instruments"}
        /\ last_op'.instruments # {}) =>
        LET accepted == ActiveStreamers(Upstream) \cap last_op'.accepts
            success == last_op'.status = 200
        IN  /\ success <=> accepted # {}
            /\ ~success => UNCHANGED <<subscribed_instruments, instrument_modes>>

C21_SuccessIffAccepted == [][C21_OrigStep]_vars

\* C21: an upstream subscribe (unsubscribe) of a non-empty list, with an active
\* connector, sends the listed instruments that are not yet (that are)
\* subscribed to every active connector. When there is none to send it
\* reports success and changes nothing; otherwise it reports success if and
\* only if at least one active connector accepts, and only then are
\* subscribed_instruments and the mode map updated (new ones in mode "full",
\* removed ones dropped), on every connector that accepted. With no active
\* connector it fails and changes nothing.
C21_Step ==
    (last_op'.op \in {"add_instruments", "remove_instruments"}
        /\ last_op'.instruments # {}) =>
        LET adding == last_op'.op = "add_instruments"
            active == ActiveStreamers(Upstream)
            accepted == active \cap last_op'.accepts
            sent == IF adding
                    THEN last_op'.instruments \ subscribed_instruments
                    ELSE last_op'.instruments \cap subscribed_instruments
            success == last_op'.status = 200
        IN  /\ success <=> (active # {} /\ (sent = {} \/ accepted # {}))
            /\ (~success \/ sent = {}) => UNCHANGED connectorVars
            /\ (success /\ adding) =>
                   /\ subscribed_instruments' = subscribed_instruments \cup sent
                   /\ instrument_modes' = WithMode(instrument_modes, sent, "full")
                   /\ \A k \in accepted :
                          sent \subseteq DOMAIN market_streamers'[k].modes
            /\ (success /\ ~adding) =>
                   /\ subscribed_instruments' = subscribed_instruments \ sent
                   /\ instrument_modes' = Without(instrument_modes, sent)
                   /\ \A k \in accepted :
                          sent \cap DOMAIN market_streamers'[k].modes = {}

C21_SubscribeOutcome == [][C21_Step]_vars

\* a subscribe of a new instrument succeeded although an active connector
\* refused it
C21_Witness ==
    /\ last_op.op = "add_instruments"
    /\ last_op.status = 200
    /\ last_op.sent # {}
    /\ \E k \in ActiveStreamers(Upstream) : k \notin last_op.accepts
    /\ last_op.sent \subseteq subscribed_instruments

\* ------------------------------------------------------------------- C22
\* C22: an upstream subscribe, unsubscribe, change-mode or reload-tokens that
\* repeats the request handled just before it (same arguments, the connectors
\* behaving the same) gets the same status, and leaves subscribed_instruments
\* and the mode map as the first application left them.
C22_Step ==
    (/\ last_op'.op \in {"add_instruments", "remove_instruments",
                          "change_mode", "reload_tokens"}
     /\ last_op'.repeat) =>
        /\ last_op'.status = last_op.status
        /\ UNCHANGED <<subscribed_instruments, instrument_modes>>

C22_Idempotent == [][C22_Step]_vars

\* an unsubscribe that succeeded was repeated: the instrument it removed is
\* still not subscribed and the repeat succeeded without a connector taking it
C22_Witness ==
    /\ last_op.op = "remove_instruments"
    /\ last_op.repeat
    /\ last_op.status = 200
    /\ last_op.instruments # {}
    /\ last_op.sent = {}
    /\ last_op.instruments \cap subscribed_instruments = {}

\* ------------------------------------------------------------------- C30
\* C30: in every state after the startup the mode map has exactly one entry per
\* subscribed instrument.
C30_OneModePerInstrument ==
    Started => DOMAIN instrument_modes = subscribed_instruments

\* ---------------------------------------------------------------- hydration
Today == _calculate_trading_date(clock)

\* the cache series of today's trading date for a pair
SeriesOf(pair) == zsets[<<Today, pair[1], pair[2]>>]

\* the frames of a step that wrote one ohlc_snapshot, to client_id
SnapshotTo(client_id, pair, candles) ==
    <<[to |-> {client_id},
       msg |-> [type |-> "ohlc_snapshot", instrument_key |-> pair[1],
                interval |-> pair[2], candles |-> candles,
                candle_count |-> Len(candles)]]>>

\* task t has handed a History API call to the executor
CallsApi(t) == \E task \in history_tasks : task.id = t /\ task.pc = "api"

\* the last step was the cache read of a task whose client was registered
CacheRead == last_op.op = "history_cache" /\ last_op.ran

\* the last step was the cache read of the task of a subscription that was
\* issued right after a hydration of the same pair from the History API
SecondRead ==
    /\ CacheRead
    /\ last_op.follows.op = "history_api"
    /\ last_op.follows.pair = last_op.pair

Persisted(pair, candle_data) ==
    \E e \in zsets[<<_calculate_trading_date(candle_data.timestamp), pair[1], pair[2]>>] :
        e.member = ApiCandleJson(pair[1], pair[2], candle_data)

C25_SnapshotAscending ==
    \A k \in DOMAIN outbox :
        outbox[k].msg.type = "ohlc_snapshot" =>
            \A i, j \in DOMAIN outbox[k].msg.candles :
                i < j => outbox[k].msg.candles[i].timestamp
                            < outbox[k].msg.candles[j].timestamp
\* task t still has to answer client c for pair
Owes(t, c, pair) ==
    \E task \in history_tasks :
        /\ task.id = t
        /\ task.client_id = c
        /\ \E k \in DOMAIN task.todo : task.todo[k] = pair

\* the last step wrote the ohlc_snapshot of pair to client c, and only to c
Answered(t, c, pair) ==
    /\ last_op.op \in {"history_cache", "history_api"}
    /\ last_op.task = t
    /\ \E candles \in {outbox[k].msg.candles : k \in DOMAIN outbox} :
            outbox = SnapshotTo(c, pair, candles)

HydratePairs == {"NIFTY"} \X {"1min", "1day"}

\* every ohlc_snapshot goes to the client of the task that wrote it and to
\* nobody else, and a History API call that yields nothing is answered with the
\* empty snapshot
C24_OnlyRequester ==
    /\ \A k \in DOMAIN outbox :
          outbox[k].msg.type = "ohlc_snapshot" =>
              /\ last_op.op \in {"history_cache", "history_api"}
              /\ outbox[k].to = {last_op.client_id}
              /\ outbox[k].msg.instrument_key = last_op.pair[1]
              /\ outbox[k].msg.interval = last_op.pair[2]
    /\ (last_op.op = "history_api" /\ last_op.api_candles = <<>>
            /\ last_op.client_id \in sessions) =>
          outbox = SnapshotTo(last_op.client_id, last_op.pair, <<>>)

\* C24: for every OHLC subscription with include_history by a client that
\* stays connected, an ohlc_snapshot is eventually sent to that client, and to
\* no other, for each requested (instrument, interval); it is the empty
\* snapshot when the cache and the History API yield nothing or the API call
\* fails.
C24_EventualSnapshot ==
    /\ []C24_OnlyRequester
    /\ \A t \in HydrateTasks, c \in HydrateClients, pair \in HydratePairs :
          Owes(t, c, pair) ~> (Answered(t, c, pair) \/ c \notin sessions)

\* the History API had nothing (or failed) for the second pair of a task, and
\* the client got the empty snapshot for it
C24_Witness ==
    /\ last_op.op = "history_api"
    /\ last_op.api_candles = <<>>
    /\ last_op.client_id \in sessions
    /\ history_tasks = {}
    /\ \E pair \in HydratePairs :
          /\ pair # HistoryPairs({"NIFTY"}, {"1min", "1day"})[1]
          /\ outbox = SnapshotTo(last_op.client_id, pair, <<>>)
\* ------------------------------------------------------------ protocol errors
\* C26: a malformed JSON frame or a frame with an unknown action is answered
\* with a {type: "error"} message to that client only; the session stays open
\* (the client remains registered) and its tick filter and OHLC filter are
\* unchanged, as are the sessions and filters of every other client.
C26_Step ==
    last_op'.op = "bad_frame" =>
        LET c == last_op'.client_id IN
        /\ Len(outbox') = 1
        /\ outbox'[1].to = {c}
        /\ outbox'[1].msg.type = "error"
        /\ sessions' = sessions
        /\ sockets'[c] = "open"
        /\ c \in DOMAIN subscribers'
        /\ DOMAIN subscribers' = DOMAIN subscribers
        /\ \A d \in DOMAIN subscribers :
              /\ Subscriptions(Registry, d)' = Subscriptions(Registry, d)
              /\ get_client_ohlc_subscriptions(Registry, d)'
                    = get_client_ohlc_subscriptions(Registry, d)

C26_ErrorKeepsSession == [][C26_Step]_vars

\* a client that had set both filters got the error frame for text that is
\* not JSON and is still registered with both filters
C26_Witness ==
    /\ last_op.op = "bad_frame"
    /\ last_op.frame = "not_json"
    /\ outbox = <<[to |-> {last_op.client_id},
                   msg |-> [type |-> "error", message |-> "Invalid JSON format"]]>>
    /\ last_op.client_id \in sessions
    /\ "NIFTY" \in Subscriptions(Registry, last_op.client_id)
    /\ get_client_ohlc_subscriptions(Registry, last_op.client_id)
          = [i \in {"NIFTY"} |-> {"1min"}]

\* ------------------------------------------------------------ candle status
\* the 1-minute series of an instrument, of every trading date
MinuteKeys(instrument_key) ==
    {key \in SeriesKeys : key[2] = instrument_key /\ key[3] = "1min"}

\* how many 1-minute candles of an instrument have status active: the one kept
\* in memory, the members of its series and the :latest entries
ActiveCount(instrument_key) ==
    LET kept == last_candle_state[instrument_key].last_candle IN
    (IF kept # NoCandle /\ kept.candle_status = "active" THEN 1 ELSE 0)
      + Cardinality({e \in UNION {zsets[key] : key \in MinuteKeys(instrument_key)} :
                        e.member.candle_status = "active"})
      + Cardinality({key \in MinuteKeys(instrument_key) :
                        latest[key] # NoJson /\ latest[key].candle_status = "active"})

\* C27: for every instrument at most one 1-minute candle has status active at
\* any instant, in memory and in the cache together: the superseded candle is
\* completed in the step in which the new one becomes active.
C27_OneActiveCandle ==
    \A i \in Instruments : ActiveCount(i) <= 1

\* the candle of a minute was superseded: it is in the series as completed and
\* the one active candle of the instrument is that of another minute
C27_Witness ==
    \E i \in Instruments :
        LET kept == last_candle_state[i].last_candle IN
        /\ last_op.op = "market_message"
        /\ ActiveCount(i) = 1
        /\ kept.candle_status = "active"
        /\ \E e \in UNION {zsets[key] : key \in MinuteKeys(i)} :
              /\ e.member.candle_status = "completed"
              /\ e.member.timestamp # kept.timestamp

\* a step in which each instrument's active 1-minute candle keeps its
\* start-timestamp or moves to a later one, and every 1-minute candle the
\* step adds to a series is of a minute before the one that is now active
C28_Step ==
    \A i \in Instruments :
        /\ last_candle_state'[i].last_timestamp >= last_candle_state[i].last_timestamp
        /\ \A key \in MinuteKeys(i) :
              \A e \in zsets'[key] \ zsets[key] :
                  e.member.layout = "candle_data" =>
                      e.score < last_candle_state'[i].last_timestamp

\* C28: per instrument the 1-minute candle transitions are totally ordered:
\* across any interleaving of frames from redundant connectors the
\* start-timestamp of the active candle in memory never moves backwards, and a
\* candle is finalized as completed only when a frame with a later
\* start-timestamp has been observed.
C28_TransitionsOrdered == [][C28_Step]_vars

\* candle e is written to the series `key` by the step
Written(key, e) == e \in zsets'[key] \ zsets[key]

\* the step's frame carries an item of the broker interval at start-timestamp ts
FrameHas(interval, ts) ==
    /\ last_op'.op = "market_message"
    /\ \E k \in DOMAIN last_op'.feeds :
          \E j \in DOMAIN last_op'.feeds[k].ohlc :
              /\ last_op'.feeds[k].ohlc[j].interval = interval
              /\ last_op'.feeds[k].ohlc[j].ts = ts

C29_Step ==
    \A key \in SeriesKeys :
        /\ latest'[key] # latest[key] => latest'[key].candle_status = "completed"
        /\ \A e \in zsets'[key] :
              Written(key, e) =>
                  /\ e.member.candle_status = "completed"
                  /\ (e.member.layout = "candle_data" /\ key[3] = "1min") =>
                        LET kept == last_candle_state[key[2]].last_candle IN
                        /\ kept.candle_status = "active"
                        /\ e.member = CandleJson([kept EXCEPT !.candle_status = "completed"])
                        /\ \E ts \in Timestamps \ {e.score} : FrameHas("I1", ts)
                        /\ last_candle_state'[key[2]].last_timestamp # e.score
                  /\ (e.member.layout = "candle_data" /\ key[3] = "1day") =>
                        FrameHas("1d", e.score)
                  /\ e.member.layout = "api" => last_op'.op = "history_api"

\* C29: every candle written to a cache series has status completed: a
\* 1-minute candle is written only when it is superseded by a frame with a
\* different start-timestamp, never while it is the active candle; a 1-day
\* candle is written completed on every emission; a History-API candle is
\* written completed.
C29_WrittenCompleted == [][C29_Step]_vars

\* the three writers have written: the 1-minute series holds a candle the
\* pipeline completed and one from the History API, the 1-day series one
\* emission, and every member is completed
C29_Witness ==
    \E d \in TradingDates :
        /\ \E e \in zsets[<<d, "NIFTY", "1min">>] : e.member.layout = "candle_data"
        /\ \E e \in zsets[<<d, "NIFTY", "1min">>] : e.member.layout = "api"
        /\ zsets[<<d, "NIFTY", "1day">>] # {}
        /\ \A key \in SeriesKeys :
              \A e \in zsets[key] : e.member.candle_status = "completed"

\* ------------------------------------------------------------ connector state
\* C31: after any sequence of upstream subscribe, unsubscribe and change-mode
\* operations (some connectors may reject) and token reloads, every active
\* connector is subscribed upstream to exactly the instruments in
\* subscribed_instruments, each in its recorded mode.
C31_ConnectorsInStep ==
    \A k \in ActiveStreamers(Upstream) :
        /\ DOMAIN market_streamers[k].modes = subscribed_instruments
        /\ \A i \in subscribed_instruments :
              market_streamers[k].modes[i] = instrument_modes[i]

\* ---------------------------------------------------------------- abort
\* a step that runs the task with id t
Runs(t) == last_op'.op \in {"history_cache", "history_api"} /\ last_op'.task = t

\* a step after which no hydration task of a client that had left before the
\* step is left with work: the task the step ran has ended
C32_Step ==
    \A task \in history_tasks :
        (task.client_id \notin sessions /\ Runs(task.id)) =>
            \A later \in history_tasks' : later.id # task.id

\* C32: when a client's socket closes while history hydration for it is in
\* flight, the remaining work is aborted at the next suspension point: the
\* next step of its task ends the task, so no further History API call is made
\* and no further snapshot is sent for its remaining pairs.
C32_AbortedOnClose == [][C32_Step]_vars

\* C33: within a process lifetime the in-memory trading date, once set, is
\* never replaced by an earlier date, whichever of a candle write, a cache read
\* of the hydrator or a scheduler refresh replaces it.
C33_Step == current_trading_date # 0 => current_trading_date' >= current_trading_date

C33_DateMonotonic == [][C33_Step]_vars

\* a History API candle of the first day is cached after the scheduler moved
\* the date to a later day
C33_Witness ==
    /\ current_trading_date > 1
    /\ last_op.op = "history_api"
    /\ \E n \in DOMAIN last_op.api_candles :
           _calculate_trading_date(last_op.api_candles[n].timestamp) = 1

\* C34: when startup has completed, the in-memory trading date and the one in
\* Redis are the date of the wall clock at startup, whatever Redis held before.
C34_StartupRefreshes ==
    (last_op.op = "startup" /\ redis_up) =>
        /\ current_trading_date = _calculate_trading_date(clock)
        /\ redis_trading_date = _calculate_trading_date(clock)

\* the last step ran the handler of `event` that connector idx entered, and
\* the connector is one of the current list
Ran(event, idx) ==
    /\ last_op.op = "callback"
    /\ last_op.event = event
    /\ last_op.streamer_index = idx
    /\ ~last_op.stale

\* connector idx gave up reconnecting and its handler has returned
GaveUp(idx) ==
    /\ market_connections[idx].phase = "stopped"
    /\ ~\E c \in callbacks : c.streamer_index = idx /\ ~c.stale

\* C35: when a connector's auto_reconnect_stopped handler has run, the record
\* at its index is not connected, not reconnecting and has last_error set; the
\* record stays not connected while the connectors are not rebuilt; no record
\* holds more reconnect attempts than the cap, and a connector's open handler
\* leaves 0 attempts in the record at its index.
C35_StoppedStaysDown ==
    /\ \A idx \in DOMAIN market_connections :
          /\ Ran("auto_reconnect_stopped", idx) =>
                /\ ~market_streamer_status[idx].connected
                /\ ~market_streamer_status[idx].reconnecting
                /\ market_streamer_status[idx].last_error # "none"
          /\ GaveUp(idx) => ~market_streamer_status[idx].connected
          /\ Ran("open", idx) => market_streamer_status[idx].reconnect_attempts = 0
    /\ \A k \in DOMAIN market_streamer_status :
          market_streamer_status[k].reconnect_attempts <= RetryCount

\* a connector gave up after RetryCount numbered attempts, and the handler has
\* just recorded it
C35_Witness ==
    \E idx \in DOMAIN market_connections :
        /\ Ran("auto_reconnect_stopped", idx)
        /\ GaveUp(idx)
        /\ market_streamer_status[idx].reconnect_attempts = RetryCount

\* C37: no status record is connected and reconnecting at once, and the health
\* summary counts no more connected market connectors than connectors.
C37_StatusConsistent ==
    /\ \A k \in DOMAIN market_streamer_status :
          ~(market_streamer_status[k].connected
                /\ market_streamer_status[k].reconnecting)
    /\ get_streamer_status.connected <= get_streamer_status.total

\* C38: the status lists are as long as the connector lists, and the record at
\* position i names token index i.
C38_StatusAligned ==
    /\ Len(market_streamer_status) = Len(market_streamers)
    /\ Len(portfolio_streamer_status) = Len(portfolio_streamers)
    /\ \A i \in DOMAIN market_streamer_status :
          market_streamer_status[i].token_index = i
    /\ \A i \in DOMAIN portfolio_streamer_status :
          portfolio_streamer_status[i].token_index = i

\* C39: the handler of an event of a connector that a reload discarded changes
\* no status record of the connectors the reload created.
C39_Step ==
    (last_op'.op = "callback" /\ last_op'.stale) =>
        market_streamer_status' = market_streamer_status

C39_StaleCallbackIgnored == [][C39_Step]_vars

\* the step sent a tick of the instrument
TickSent(instrument_key) ==
    \E n \in DOMAIN outbox' :
        IF outbox'[n].msg.type = "market_data"
        THEN outbox'[n].msg.instrument_key = instrument_key
        ELSE FALSE

\* the step sent a candle of the instrument
CandleSent(instrument_key) ==
    \E n \in DOMAIN outbox' :
        IF outbox'[n].msg.type = "ohlc_data"
        THEN outbox'[n].msg.data.instrument_key = instrument_key
        ELSE FALSE

\* C36: a frame ingested while Redis is down is processed apart from the
\* cache writes: every tick of the frame is the in-memory latest of its
\* instrument and is sent when a client's filter admits it, the 1-day candle
\* of the same feed is sent when a client's OHLC filter admits it, and so for
\* every feed of the frame.
C36_Step ==
    (last_op'.op = "market_message" /\ ~redis_up) =>
        \A k \in DOMAIN last_op'.feeds :
            LET feed == last_op'.feeds[k]
                instrument_key == feed.instrument_key
            IN  /\ feed.ltpc # 0 =>
                      /\ market_data_cache'[instrument_key] = feed.ltpc
                      /\ (\E c \in DOMAIN subscribers :
                              "*" \in Subscriptions(Registry, c))
                            => TickSent(instrument_key)
                /\ (/\ \E n \in DOMAIN feed.ohlc : feed.ohlc[n].interval = "1d"
                    /\ \E c \in DOMAIN ohlc_subscribers \cap DOMAIN subscribers :
                           instrument_key \in DOMAIN ohlc_subscribers[c])
                      => CandleSent(instrument_key)

C36_DegradedIngest == [][C36_Step]_vars

\* C40: every client id that has an OHLC filter has a tick-registry entry,
\* whichever of a session's requests, its teardown and the removals of a
\* broadcast ran last.
C40_OhlcHasClient == DOMAIN ohlc_subscribers \subseteq DOMAIN subscribers

\* a tick broadcast has removed a client whose session had not ended, while
\* a client that the tick did not reach keeps its entries
C40_Witness ==
    /\ last_op.op = "market_message"
    /\ \E c \in last_op.failed \cap sessions : c \notin DOMAIN subscribers
====
